---- MODULE Spec2Model ----
(***************************************************************************)
(* Model of the kleinanzeigen_bot repository: the seen-set stores          *)
(* (src/database.py, src/_old_bot_backup/database.py,                      *)
(* src/src/database.py) and the poll cycle of the single-search bot        *)
(* (src/main.py) with its notifier hand-off (src/notifier.py).             *)
(*                                                                         *)
(* A table is a sequence of rows in insertion (rowid) order.  Python None  *)
(* is a value outside the column's domain.  Ad ids are naturals, 0 being   *)
(* the empty id.                                                           *)
(* A storage error (sqlite3.Error) is an input `err` of every store call.  *)
(***************************************************************************)
EXTENDS Integers, Sequences, FiniteSets, TLC

VARIABLES
    module,           \* which database module the store-level run exercises
    now,              \* datetime.now(), a logical clock
    seen_ads,         \* table seen_ads (src/database.py and _old_bot_backup)
    searches,         \* table searches (_old_bot_backup/database.py)
    sqlite_sequence,  \* AUTOINCREMENT counter of searches.search_id
    listings,         \* table listings (src/src/database.py)
    last_call,        \* the last call made: its name, arguments, result
    pc,               \* where the bot process of src/main.py is
    filtered_ads,     \* _run_once: the fetched ads that passed _filter_ads
    idx,              \* _get_new_ads: position of the loop over filtered_ads
    new_ads,          \* _get_new_ads: the batch of new ads
    queue,            \* send_telegram: the ads not yet sent
    last_cleanup,     \* self._last_cleanup (NoTime: attribute not set)
    hist,             \* history of the run, read by the properties only
    running,          \* self.running, cleared by _signal_handler
    active_searches,  \* run (_old_bot_backup): the searches of this pass
    pass_log,         \* the cycles of this pass, read by the properties only
    loop,             \* where run() of src/main.py is between two cycles
    waited,           \* run (src/main.py): the seconds of the wait slept
    config,           \* the search a bot filters for (price bounds, keywords)
    fetched,          \* _filter_ads: the list it was last called with
    request,          \* the call made to the parser or notifier, with arguments
    parsed,           \* parse_listing: the Listing returned (or NoListing)
    consulted,        \* parse_listing: the extractors it called
    metadata,         \* extract_metadata: the dictionary returned
    sent,             \* send_listings: the listings handed to send_listing
    returned,         \* get_last_ads, get_newest_ads: the list returned
    deleted_count,    \* cleanup_old_entries: the number returned
    scraper,          \* self.scraper: max_retries and the locals of fetch_ads
    notifier,         \* self.notifier: chat_ids and the locals of send_telegram
    handler           \* TelegramHandler: conversation states, user_data, last update

dbvars == <<module, now, seen_ads, searches, sqlite_sequence, listings, last_call>>

botvars == <<pc, filtered_ads, idx, new_ads, queue, last_cleanup, hist>>

pollvars == <<running, active_searches, pass_log>>

loopvars == <<loop, waited>>

filtervars == <<config, fetched>>

parservars == <<request, parsed, consulted, metadata, sent>>

retrievalvars == <<returned, deleted_count>>

scrapervars == <<scraper>>

notifiervars == <<notifier>>

handlervars == <<handler>>

latervars == <<scrapervars, notifiervars, handlervars>>

restvars == <<parservars, retrievalvars, latervars>>

vars == <<dbvars, botvars, pollvars, loopvars, filtervars, restvars>>

(***************************************************************************)
(* Bounds                                                                  *)
(***************************************************************************)
MaxAds == 2
MaxSearches == 2
MaxTime == 2
MaxFeedLen == 2
MaxCycles == 3

NoPrice == 0 - 1       \* None in a price column (prices are >= 0)
NoTime == 0 - 1        \* None in a timestamp column
NoId == 0 - 1          \* no search_id returned
JsonNull == <<"null">> \* None in the exclude_keywords column
AdIds == 1..MaxAds
EmptyId == 0
Users == {"u1", "u2"}
Titles == {"a", "b"}
SnapPrices == {NoPrice, 10}
SearchIds == 1..MaxSearches

(***************************************************************************)
(* Sequence helpers                                                        *)
(***************************************************************************)
Range(s) == {s[i] : i \in 1..Len(s)}

\* the list as it is
Unreversed(s) == s

RECURSIVE Reverse(_)
Reverse(s) == IF s = <<>> THEN <<>> ELSE Append(Reverse(Tail(s)), Head(s))

SeqsUpTo(S, n) == UNION {[1..k -> S] : k \in 0..n}

Count(table, Test(_)) == Len(SelectSeq(table, Test))

\* F applied to the value of v, v being computed once
At(v, F(_)) == CHOOSE r \in {F(x) : x \in {v}} : TRUE

(***************************************************************************)
(* src/database.py : Database (single-search bot)                          *)
(***************************************************************************)
\* INSERT OR REPLACE on the primary key ad_id: the conflicting row is
\* deleted and the new row is inserted (with a new rowid, hence at the end).
InsertOrReplace(table, row) ==
    Append(SelectSeq(table, LAMBDA r : r.ad_id # row.ad_id), row)

\* a lookup that reads only the oldest row
HasRowFirst(table, ad_id) == Len(table) > 0 /\ table[1].ad_id = ad_id

HasRow(table, ad_id) == \E i \in 1..Len(table) : table[i].ad_id = ad_id

\* an is_new_ad that never finds the row
is_new_ad_always(table, ad_id, err) == TRUE

\* an is_new_ad that answers False on a storage error (fail-closed)
is_new_ad_failclosed(table, ad_id, err) ==
    IF err THEN FALSE ELSE ~HasRow(table, ad_id)

\* SELECT 1 FROM seen_ads WHERE ad_id = ?; fetchone() is None.
\* except sqlite3.Error: return True
is_new_ad(table, ad_id, err) ==
    IF err THEN TRUE ELSE ~HasRow(table, ad_id)

\* a mark_as_seen that lets the storage error escape
mark_as_seen_raises_err(err) == err

\* mark_as_seen catches sqlite3.Error and only logs it: it never raises
mark_as_seen_raises(err) == FALSE

\* a mark_as_seen that writes nothing
mark_as_seen_drop(table, ad_id, title, price, t, err) == table

\* a mark_as_seen that inserts without replacing
mark_as_seen_plain(table, ad_id, title, price, t, err) ==
    IF err THEN table
    ELSE Append(table, [ad_id |-> ad_id, title |-> title, price |-> price,
                        fetched_at |-> t])

\* The table after mark_as_seen(ad_id, title, price, ...) at time t; link,
\* location and posted_time are copied like title and price and left out.
mark_as_seen(table, ad_id, title, price, t, err) ==
    IF err THEN table
    ELSE InsertOrReplace(table, [ad_id |-> ad_id, title |-> title,
                                 price |-> price, fetched_at |-> t])

(***************************************************************************)
(* src/src/database.py : Database (DDR5 bot), table listings               *)
(***************************************************************************)
HasListing(table, ad_id) == \E i \in 1..Len(table) : table[i].ad_id = ad_id

\* SELECT 1 FROM listings WHERE ad_id = ?; except sqlite3.Error: return True
is_new_listing(table, ad_id, err) ==
    IF err THEN TRUE ELSE ~HasListing(table, ad_id)

\* INSERT OR REPLACE INTO listings: ad_id is the primary key and url is
\* UNIQUE, so every row that conflicts on either is deleted first.
\* Returns the table and the boolean result.
save_listing(table, listing, t, err) ==
    IF err THEN [table |-> table, ret |-> FALSE]
    ELSE [table |-> Append(SelectSeq(table, LAMBDA r :
                               r.ad_id # listing.ad_id /\ r.url # listing.url),
                           [ad_id |-> listing.ad_id, url |-> listing.url,
                            title |-> listing.title, price |-> listing.price,
                            last_checked |-> t]),
          ret |-> TRUE]

(***************************************************************************)
(* src/_old_bot_backup/database.py : Database (multi-search bot)           *)
(***************************************************************************)
\* json.dumps of the exclude_keywords column
JsonDumps(list) == <<"json", list>>

HasSearch(table, search_id) ==
    \E i \in 1..Len(table) : table[i].search_id = search_id

IsOwner(table, search_id, user_id) ==
    \E i \in 1..Len(table) :
        table[i].search_id = search_id /\ table[i].user_id = user_id

\* is_new_ad of the multi-search store: the lookup is by ad_id alone
old_is_new_ad(table, ad_id, err) ==
    IF err THEN TRUE ELSE ~HasRow(table, ad_id)

\* INSERT INTO searches ...; search_id = cursor.lastrowid (AUTOINCREMENT).
\* On sqlite3.Error the error is logged and raised again.
add_search(table, seq, user_id, keyword, exclude_keywords, t, err) ==
    IF err THEN [searches |-> table, seq |-> seq, ret |-> NoId, raised |-> TRUE]
    ELSE [searches |-> Append(table,
              [search_id |-> seq + 1, user_id |-> user_id, keyword |-> keyword,
               category |-> "c225", price_min |-> NoPrice, price_max |-> NoPrice,
               interval_seconds |-> 300, shipping_preference |-> "both",
               exclude_keywords |-> IF exclude_keywords # <<>>
                                    THEN JsonDumps(exclude_keywords) ELSE JsonNull,
               active |-> TRUE, created_at |-> t, last_check |-> NoTime]),
          seq |-> seq + 1, ret |-> seq + 1, raised |-> FALSE]

\* UPDATE searches SET active = <value> WHERE search_id = ? AND user_id = ?
SetActive(table, search_id, user_id, value) ==
    [i \in 1..Len(table) |->
        IF table[i].search_id = search_id /\ table[i].user_id = user_id
        THEN [table[i] EXCEPT !.active = value] ELSE table[i]]

\* pause_search: True iff a row was updated; False on sqlite3.Error
pause_search(table, search_id, user_id, err) ==
    IF err THEN [searches |-> table, ret |-> FALSE]
    ELSE [searches |-> SetActive(table, search_id, user_id, FALSE),
          ret |-> IsOwner(table, search_id, user_id)]

resume_search(table, search_id, user_id, err) ==
    IF err THEN [searches |-> table, ret |-> FALSE]
    ELSE [searches |-> SetActive(table, search_id, user_id, TRUE),
          ret |-> IsOwner(table, search_id, user_id)]

\* a delete_search that forgets the seen_ads rows
delete_search_nocascade(stable, atable, search_id, user_id, err) ==
    IF err THEN [searches |-> stable, seen_ads |-> atable, ret |-> FALSE]
    ELSE [searches |-> SelectSeq(stable, LAMBDA r :
                          ~(r.search_id = search_id /\ r.user_id = user_id)),
          seen_ads |-> atable,
          ret |-> IsOwner(stable, search_id, user_id)]

\* delete_search: DELETE FROM seen_ads WHERE search_id = ?  (no owner test),
\* then DELETE FROM searches WHERE search_id = ? AND user_id = ?, one commit.
\* A sqlite3.Error leaves the transaction uncommitted and returns False.
delete_search(stable, atable, search_id, user_id, err) ==
    IF err THEN [searches |-> stable, seen_ads |-> atable, ret |-> FALSE]
    ELSE [searches |-> SelectSeq(stable, LAMBDA r :
                          ~(r.search_id = search_id /\ r.user_id = user_id)),
          seen_ads |-> SelectSeq(atable, LAMBDA r : r.search_id # search_id),
          ret |-> IsOwner(stable, search_id, user_id)]

allowed_fields == {"keyword", "price_min", "price_max", "interval_seconds",
                   "shipping_preference", "exclude_keywords"}

SearchColumns == {"search_id", "user_id", "keyword", "category", "price_min",
                  "price_max", "interval_seconds", "shipping_preference",
                  "exclude_keywords", "active", "created_at", "last_check"}

\* an update_search that takes every column named in kwargs
UpdatedFieldsAnyColumn(kwargs) == DOMAIN kwargs \cap SearchColumns

\* for field, value in kwargs.items(): if field in allowed_fields: ...
UpdatedFields(kwargs) == DOMAIN kwargs \cap allowed_fields

\* the value bound to a column: a list for exclude_keywords is json.dumps'ed
\* (callers pass a list for exclude_keywords)
BoundValue(field, value) ==
    IF field = "exclude_keywords" THEN JsonDumps(value) ELSE value

\* update_search(search_id, user_id, **kwargs)
update_search(table, search_id, user_id, kwargs, err) ==
    LET updates == UpdatedFields(kwargs) IN
    IF updates = {} THEN [searches |-> table, ret |-> FALSE]
    ELSE IF err THEN [searches |-> table, ret |-> FALSE]
    ELSE [searches |->
              [i \in 1..Len(table) |->
                  IF table[i].search_id = search_id /\ table[i].user_id = user_id
                  THEN [f \in DOMAIN table[i] |->
                           IF f \in updates THEN BoundValue(f, kwargs[f])
                           ELSE table[i][f]]
                  ELSE table[i]],
          ret |-> IsOwner(table, search_id, user_id)]

\* mark_as_seen_with_search: INSERT OR REPLACE INTO seen_ads keyed by ad_id;
\* the OCR and price-comparison columns are copied like title and price.
mark_as_seen_with_search(table, ad_id, search_id, title, price, t, err) ==
    IF err THEN table
    ELSE InsertOrReplace(table, [ad_id |-> ad_id, search_id |-> search_id,
                                 title |-> title, price |-> price,
                                 fetched_at |-> t])

\* get_stats(days)["total"]: SELECT COUNT(*) FROM seen_ads; 0 on sqlite3.Error
get_stats_total(table, err) == IF err THEN 0 ELSE Len(table)

(***************************************************************************)
(* src/_old_bot_backup/main.py : KleinanzeigenBot._get_new_ads             *)
(***************************************************************************)
\* for ad in ads: skip an empty id; if is_new_ad(ad_id): append to new_ads
\* and mark_as_seen_with_search(ad_id, search_id, ...).  Returns the table
\* and the new batch.  err: the store is failing during the whole call.
RECURSIVE old_get_new_ads(_, _, _, _, _)
old_get_new_ads(table, ads, search_id, t, err) ==
    IF ads = <<>> THEN [seen_ads |-> table, new_ads |-> <<>>]
    ELSE LET ad == Head(ads) IN
         IF ad.id = EmptyId
         THEN old_get_new_ads(table, Tail(ads), search_id, t, err)
         ELSE IF old_is_new_ad(table, ad.id, err)
         THEN LET marked == mark_as_seen_with_search(table, ad.id, search_id,
                                                     ad.title, ad.price, t, err)
                  rest == old_get_new_ads(marked, Tail(ads), search_id, t, err)
              IN [seen_ads |-> rest.seen_ads, new_ads |-> <<ad>> \o rest.new_ads]
         ELSE old_get_new_ads(table, Tail(ads), search_id, t, err)

(***************************************************************************)
(* Store-level runs: a client calls the API of one database module.        *)
(* last_call records the call just made: its name, the arguments the       *)
(* properties read, its boolean result (TRUE for a call that returned a    *)
(* value), whether it raised, and the ids it returned.                     *)
(***************************************************************************)
CallIds(op, args, ret, raised, ids) ==
    [op |-> op, args |-> args, ret |-> ret, raised |-> raised, ids |-> ids]

Call(op, args, ret, raised) == CallIds(op, args, ret, raised, {})

\* a search without price bounds, excluded keywords or shipping preference
NoConfig ==
    [price_min |-> NoPrice, price_max |-> NoPrice, exclude_keywords |-> <<>>,
     shipping_preference |-> "both"]

\* the history of a run in which nothing has happened yet
NoHist ==
    [cycles |-> 0,       \* poll cycles started, over all restarts
     clean |-> TRUE,     \* no storage error and no pruning so far
     stored0 |-> {},     \* ids in seen_ads when the current cycle began
     prev_ids |-> {},    \* non-empty ids of the previous cycle's filtered ads
     was_new |-> {},     \* ids some earlier _get_new_ads returned as new
     written |-> {},     \* ids mark_as_seen was called for in this cycle
     missed |-> {},      \* ids marked by a cycle that crashed before sending
     failed |-> {},      \* ids whose delivery failed on every attempt
     prunes |-> <<>>]    \* the times _run_once called cleanup_old_entries

\* everything but the clock and the seen_ads table
\* ---- src/telegram_handler.py : TelegramHandler after __init__
\* ConversationHandler.END: the chat has no conversation
END == "END"

\* context.user_data = {}
EmptyDict == [k \in {} |-> 0]

\* no update has been handled yet
NoChat == "<none>"

\* state: the state of the add-search conversation of each chat;
\* user_data: context.user_data of each chat; chat, by, db, raised: the chat
\* of the update handled last, the callback that handled it ("none": no
\* handler accepted it), the Database methods it called and whether it
\* caught an exception
NoHandler ==
    [state |-> [c \in Users |-> END],
     user_data |-> [c \in Users |-> EmptyDict],
     chat |-> NoChat, by |-> "none", db |-> {}, raised |-> FALSE]

InitCalls ==
    /\ handler = NoHandler
    /\ searches = <<>>
    /\ sqlite_sequence = 0
    /\ listings = <<>>
    /\ last_call = Call("init", <<>>, FALSE, FALSE)
    /\ pc = "off"
    /\ filtered_ads = <<>>
    /\ idx = 0
    /\ new_ads = <<>>
    /\ queue = <<>>
    /\ last_cleanup = NoTime
    /\ hist = NoHist
    /\ running = TRUE
    /\ active_searches = <<>>
    /\ pass_log = <<>>
    /\ loop = "while"
    /\ waited = 0
    /\ fetched = <<>>
    /\ parsed = [none |-> TRUE]
    /\ consulted = {}
    /\ metadata =
           [has_ovp |-> FALSE, has_invoice |-> FALSE, shipping_available |-> FALSE]
    /\ sent = <<>>
    /\ returned = <<>>
    /\ deleted_count = 0

\* no fetch_ads and no send_telegram is under way
InitOther ==
    /\ InitCalls
    /\ scraper = [pc |-> "off"]
    /\ notifier = [pc |-> "off"]

InitStore ==
    /\ now = 0
    /\ seen_ads = <<>>
    /\ InitOther

\* time passes between two calls or two poll cycles (the age of a row
\* matters to the retrieval and pruning calls of src/database.py only)
Tick ==
    /\ \/ module = "database"
       \/ module = "bot" /\ pc = "idle"
       \/ module = "old_database" /\ pc = "sleep"
    /\ now < MaxTime
    /\ now' = now + 1
    /\ last_call' = Call("tick", <<>>, FALSE, FALSE)
    /\ UNCHANGED pollvars
    /\ UNCHANGED <<loopvars, filtervars>>
    /\ UNCHANGED <<module, seen_ads, searches, sqlite_sequence, listings>>
    /\ UNCHANGED restvars
    /\ UNCHANGED botvars

\* ---- src/database.py
Call_is_new_ad(ad_id, err) ==
    /\ module = "database"
    /\ last_call' = Call("is_new_ad", <<ad_id, err>>,
                         is_new_ad(seen_ads, ad_id, err), FALSE)
    /\ UNCHANGED pollvars
    /\ UNCHANGED <<loopvars, filtervars>>
    /\ UNCHANGED <<module, now, seen_ads, searches, sqlite_sequence, listings>>
    /\ UNCHANGED restvars
    /\ UNCHANGED botvars

\* args: the arguments, the number of rows before the call and whether the
\* id had a row before the call
Call_mark_as_seen(ad_id, title, price, err) ==
    /\ module = "database"
    /\ seen_ads' = mark_as_seen(seen_ads, ad_id, title, price, now, err)
    /\ last_call' = Call("mark_as_seen",
                         <<ad_id, title, price, err, Len(seen_ads),
                           HasRow(seen_ads, ad_id)>>, FALSE,
                         mark_as_seen_raises(err))
    /\ UNCHANGED pollvars
    /\ UNCHANGED <<loopvars, filtervars>>
    /\ UNCHANGED <<module, now, searches, sqlite_sequence, listings>>
    /\ UNCHANGED restvars
    /\ UNCHANGED botvars

\* ---- src/src/database.py
Listings == [ad_id : AdIds, url : AdIds, title : {"a"}, price : {10, 20}]

Call_is_new_listing(ad_id, err) ==
    /\ module = "ddr5_database"
    /\ last_call' = Call("is_new_listing", <<ad_id, err>>,
                         is_new_listing(listings, ad_id, err), FALSE)
    /\ UNCHANGED pollvars
    /\ UNCHANGED <<loopvars, filtervars>>
    /\ UNCHANGED <<module, now, seen_ads, searches, sqlite_sequence, listings>>
    /\ UNCHANGED restvars
    /\ UNCHANGED botvars

Call_save_listing(listing, err) ==
    /\ module = "ddr5_database"
    /\ LET r == save_listing(listings, listing, now, err) IN
       /\ listings' = r.table
       /\ last_call' = Call("save_listing", <<listing.ad_id, err>>, r.ret, FALSE)
    /\ UNCHANGED pollvars
    /\ UNCHANGED <<loopvars, filtervars>>
    /\ UNCHANGED <<module, now, seen_ads, searches, sqlite_sequence>>
    /\ UNCHANGED restvars
    /\ UNCHANGED botvars

\* ---- src/_old_bot_backup/database.py
\* keyword arguments a caller of update_search may pass
KwargsSamples ==
    << [price_min |-> 10],
       [price_min |-> 10, price_max |-> 20, user_id |-> "u2"],
       [active |-> FALSE, category |-> "c1"] >>

Call_old_is_new_ad(ad_id, err) ==
    /\ module = "old_database"
    /\ last_call' = Call("is_new_ad", <<ad_id, err>>,
                         old_is_new_ad(seen_ads, ad_id, err), FALSE)
    /\ UNCHANGED pollvars
    /\ UNCHANGED <<loopvars, filtervars>>
    /\ UNCHANGED <<module, now, seen_ads, searches, sqlite_sequence, listings>>
    /\ UNCHANGED restvars
    /\ UNCHANGED botvars

Call_add_search(user_id, err) ==
    /\ module = "old_database"
    /\ sqlite_sequence < MaxSearches
    /\ LET r == add_search(searches, sqlite_sequence, user_id, "k1", <<>>,
                           now, err) IN
       /\ searches' = r.searches
       /\ sqlite_sequence' = r.seq
       /\ last_call' = CallIds("add_search", <<>>, ~r.raised, r.raised,
                               {r.ret} \ {NoId})
    /\ UNCHANGED pollvars
    /\ UNCHANGED <<loopvars, filtervars>>
    /\ UNCHANGED <<module, now, seen_ads, listings>>
    /\ UNCHANGED restvars
    /\ UNCHANGED botvars

Call_mark_as_seen_with_search(ad_id, search_id, title, price, err) ==
    /\ module = "old_database"
    /\ seen_ads' = mark_as_seen_with_search(seen_ads, ad_id, search_id, title,
                                            price, now, err)
    /\ last_call' = Call("mark_as_seen_with_search",
                         <<ad_id, title, price, err, Len(seen_ads),
                           HasRow(seen_ads, ad_id)>>, FALSE, FALSE)
    /\ UNCHANGED pollvars
    /\ UNCHANGED <<loopvars, filtervars>>
    /\ UNCHANGED <<module, now, searches, sqlite_sequence, listings>>
    /\ UNCHANGED restvars
    /\ UNCHANGED botvars

Call_pause_search(search_id, user_id, err) ==
    /\ module = "old_database"
    /\ LET r == pause_search(searches, search_id, user_id, err) IN
       /\ searches' = r.searches
       /\ last_call' = Call("pause_search", <<>>, r.ret, FALSE)
    /\ UNCHANGED pollvars
    /\ UNCHANGED <<loopvars, filtervars>>
    /\ UNCHANGED <<module, now, seen_ads, sqlite_sequence, listings>>
    /\ UNCHANGED restvars
    /\ UNCHANGED botvars

Call_resume_search(search_id, user_id, err) ==
    /\ module = "old_database"
    /\ LET r == resume_search(searches, search_id, user_id, err) IN
       /\ searches' = r.searches
       /\ last_call' = Call("resume_search", <<>>, r.ret, FALSE)
    /\ UNCHANGED pollvars
    /\ UNCHANGED <<loopvars, filtervars>>
    /\ UNCHANGED <<module, now, seen_ads, sqlite_sequence, listings>>
    /\ UNCHANGED restvars
    /\ UNCHANGED botvars

\* args: get_stats()["total"] taken before the call
Call_delete_search(search_id, user_id, err) ==
    /\ module = "old_database"
    /\ LET r == delete_search(searches, seen_ads, search_id, user_id, err) IN
       /\ searches' = r.searches
       /\ seen_ads' = r.seen_ads
       /\ last_call' = Call("delete_search",
                            <<get_stats_total(seen_ads, FALSE)>>, r.ret, FALSE)
    /\ UNCHANGED pollvars
    /\ UNCHANGED <<loopvars, filtervars>>
    /\ UNCHANGED <<module, now, sqlite_sequence, listings>>
    /\ UNCHANGED restvars
    /\ UNCHANGED botvars

Call_update_search(search_id, user_id, k, err) ==
    /\ module = "old_database"
    /\ LET r == update_search(searches, search_id, user_id, KwargsSamples[k],
                              err) IN
       /\ searches' = r.searches
       /\ last_call' = Call("update_search", <<k>>, r.ret, FALSE)
    /\ UNCHANGED pollvars
    /\ UNCHANGED <<loopvars, filtervars>>
    /\ UNCHANGED <<module, now, seen_ads, sqlite_sequence, listings>>
    /\ UNCHANGED restvars
    /\ UNCHANGED botvars

\* ---- src/_old_bot_backup/main.py
OldFeedAds == [id : {EmptyId} \cup AdIds, title : {"a"}, price : {10}]

Ids(ads) == {ads[i].id : i \in 1..Len(ads)}

Call_old_get_new_ads(ads, search_id, err) ==
    /\ module = "old_database"
    /\ LET r == old_get_new_ads(seen_ads, ads, search_id, now, err) IN
       /\ seen_ads' = r.seen_ads
       /\ last_call' = CallIds("_get_new_ads", <<search_id>>, TRUE, FALSE,
                               Ids(r.new_ads))
    /\ UNCHANGED pollvars
    /\ UNCHANGED <<loopvars, filtervars>>
    /\ UNCHANGED <<module, now, searches, sqlite_sequence, listings>>
    /\ UNCHANGED restvars
    /\ UNCHANGED botvars

\* ---- the seen-set calls of the three stores
InitDb ==
    /\ module \in {"database", "ddr5_database", "old_database"}
    /\ InitStore
    /\ config = NoConfig
    /\ request = [op |-> "none"]

NextDb ==
    \/ Tick
    \/ \E ad_id \in AdIds, err \in BOOLEAN : Call_is_new_ad(ad_id, err)
    \/ \E ad_id \in AdIds, title \in Titles, price \in SnapPrices,
          err \in BOOLEAN : Call_mark_as_seen(ad_id, title, price, err)
    \/ \E ad_id \in AdIds, err \in BOOLEAN : Call_is_new_listing(ad_id, err)
    \/ \E listing \in Listings, err \in BOOLEAN : Call_save_listing(listing, err)
    \/ \E ad_id \in AdIds, err \in BOOLEAN : Call_old_is_new_ad(ad_id, err)
    \/ \E ad_id \in AdIds, search_id \in SearchIds, title \in Titles,
          price \in SnapPrices, err \in BOOLEAN :
          Call_mark_as_seen_with_search(ad_id, search_id, title, price, err)

SpecDb == InitDb /\ [][NextDb]_vars

\* ---- the multi-search store: searches and their seen ads
InitOld ==
    /\ module = "old_database"
    /\ InitStore
    /\ config = NoConfig
    /\ request = [op |-> "none"]

SearchCalls ==
    \/ \E user_id \in Users, err \in BOOLEAN : Call_add_search(user_id, err)
    \/ \E search_id \in SearchIds, user_id \in Users, err \in BOOLEAN :
          Call_pause_search(search_id, user_id, err)
    \/ \E search_id \in SearchIds, user_id \in Users, err \in BOOLEAN :
          Call_resume_search(search_id, user_id, err)
    \/ \E search_id \in SearchIds, user_id \in Users, err \in BOOLEAN :
          Call_delete_search(search_id, user_id, err)

\* the poll loop records ads for a search it has read from the table
SeenCalls ==
    \/ \E ad_id \in AdIds, search_id \in SearchIds, err \in BOOLEAN :
          /\ HasSearch(searches, search_id)
          /\ Call_mark_as_seen_with_search(ad_id, search_id, "a", 10, err)
    \/ \E ads \in SeqsUpTo(OldFeedAds, MaxFeedLen), search_id \in SearchIds,
          err \in BOOLEAN :
          /\ HasSearch(searches, search_id)
          /\ Call_old_get_new_ads(ads, search_id, err)

UpdateCalls ==
    \E search_id \in SearchIds, user_id \in Users,
       k \in 1..Len(KwargsSamples), err \in BOOLEAN :
       Call_update_search(search_id, user_id, k, err)

\* searches are created, paused, resumed and deleted while ads are recorded
NextOldSeen == SearchCalls \/ SeenCalls

SpecOldSeen == InitOld /\ [][NextOldSeen]_vars

\* searches are created, edited, paused, resumed and deleted
NextSearches == SearchCalls \/ UpdateCalls

SpecSearches == InitOld /\ [][NextSearches]_vars

\* every call of the multi-search store
NextOldDb == SearchCalls \/ SeenCalls \/ UpdateCalls

SpecOldDb == InitOld /\ [][NextOldDb]_vars

(***************************************************************************)
(* src/main.py : KleinanzeigenBot, the single-search bot.                  *)
(* A text is a sequence of characters; time is counted in days.            *)
(***************************************************************************)
\* the search configuration read in __init__
price_min == 5
price_max == 50
exclude_keywords == << <<"d", "E">> >>
cleanup_days == 1
\* timedelta(days=1), the least time between two cleanups
OneDay == 1

LowerChar(c) == IF c = "D" THEN "d" ELSE IF c = "E" THEN "e" ELSE c

\* str.lower()
Lower(text) == [i \in 1..Len(text) |-> LowerChar(text[i])]

\* keyword in text
Contains(keyword, text) ==
    \E i \in 0..(Len(text) - Len(keyword)) :
        SubSeq(text, i + 1, i + Len(keyword)) = keyword

\* one iteration of _filter_ads: the ad is kept
PassesFilter(ad) ==
    /\ ad.price # NoPrice
          => /\ ~(price_min # NoPrice /\ ad.price < price_min)
             /\ ~(price_max # NoPrice /\ ad.price > price_max)
    /\ ~ad.is_gesuch
    /\ ~\E k \in 1..Len(exclude_keywords) :
           Contains(Lower(exclude_keywords[k]), Lower(ad.title))

filter_ads(ads) == SelectSeq(ads, PassesFilter)

SeenIds(table) == {table[i].ad_id : i \in 1..Len(table)}

\* the rows in the order of ORDER BY fetched_at ASC (rowid order among equals)
OrderByFetchedAt(table) ==
    At([i \in 1..Len(table) |->
           Cardinality({j \in 1..Len(table) :
               \/ table[j].fetched_at < table[i].fetched_at
               \/ table[j].fetched_at = table[i].fetched_at /\ j < i}) + 1],
       LAMBDA place :
           [k \in 1..Len(table) |->
               table[CHOOSE i \in 1..Len(table) : place[i] = k]])

Min(a, b) == IF a < b THEN a ELSE b
Max(a, b) == IF a > b THEN a ELSE b

\* get_last_ads(limit): the `limit` oldest rows; [] on sqlite3.Error
get_last_ads(table, limit, err) ==
    IF err THEN <<>>
    ELSE LET rows == OrderByFetchedAt(table)
         IN SubSeq(rows, 1, Min(Len(rows), Min(Max(1, limit), 100)))

\* a cleanup_old_entries that also deletes the rows at the cutoff
cleanup_old_entries_inclusive(table, days, t, err) ==
    IF err THEN table
    ELSE SelectSeq(table, LAMBDA r : ~(r.fetched_at <= t - days))

\* cleanup_old_entries(days): DELETE FROM seen_ads WHERE fetched_at < cutoff;
\* nothing is deleted on sqlite3.Error
cleanup_old_entries(table, days, t, err) ==
    IF err THEN table
    ELSE SelectSeq(table, LAMBDA r : ~(r.fetched_at < t - days))

\* ---- what the scraper can return
TitleOk == <<"a", "d">>
TitleExcluded == <<"D", "e">>

Ad(id, title, price, is_gesuch) ==
    [id |-> id, title |-> title, price |-> price, is_gesuch |-> is_gesuch]

\* one ad per id that passes the filter (the ad with id 1 has no price) and
\* ads that fail it: too dear, too cheap, a wanted ad, an excluded title
RawAds ==
    {Ad(id, TitleOk, IF id = 1 THEN NoPrice ELSE 10, FALSE) :
        id \in {EmptyId} \cup AdIds}
    \cup {Ad(1, TitleOk, 99, FALSE), Ad(1, TitleOk, 1, FALSE),
          Ad(2, TitleOk, 10, TRUE), Ad(2, TitleExcluded, 10, FALSE)}

EndCycle(h) == [h EXCEPT !.stored0 = {}, !.written = {}]

NoLocals ==
    /\ filtered_ads' = <<>>
    /\ idx' = 0
    /\ new_ads' = <<>>
    /\ queue' = <<>>

\* ---- run(): the process starts, sends the last 3 ads and enters the loop
Start(err) ==
    /\ module = "bot"
    /\ pc = "off"
    /\ pc' = "idle"
    /\ last_cleanup' = NoTime
    /\ last_call' = CallIds("run", <<>>, TRUE, FALSE,
                            SeenIds(get_last_ads(seen_ads, 3, err)))
    /\ UNCHANGED pollvars
    /\ UNCHANGED <<loopvars, filtervars>>
    /\ UNCHANGED <<module, now, seen_ads, searches, sqlite_sequence, listings>>
    /\ UNCHANGED restvars
    /\ UNCHANGED <<filtered_ads, idx, new_ads, queue, hist>>

\* ---- _run_once: fetch_ads and _filter_ads; no ads: return
RunOnce_fetch(ads) ==
    /\ module = "bot"
    /\ pc = "idle"
    /\ hist.cycles < MaxCycles
    /\ IF ads = <<>>
       THEN /\ pc' = "idle"
            /\ UNCHANGED <<filtered_ads, idx, new_ads>>
            /\ hist' = [hist EXCEPT !.cycles = @ + 1]
       ELSE /\ filtered_ads' = filter_ads(ads)
            /\ idx' = 1
            /\ new_ads' = <<>>
            /\ pc' = IF filter_ads(ads) = <<>> THEN "got" ELSE "dedup"
            /\ hist' = [hist EXCEPT !.cycles = @ + 1,
                                    !.stored0 = SeenIds(seen_ads)]
    /\ last_call' = Call("fetch_ads", <<>>, ads # <<>>, FALSE)
    /\ UNCHANGED pollvars
    /\ UNCHANGED <<module, now, seen_ads, searches, sqlite_sequence, listings>>
    /\ UNCHANGED restvars
    /\ UNCHANGED <<queue, last_cleanup>>

\* where the loop of _get_new_ads goes after the ad at idx
AfterAd == IF idx < Len(filtered_ads) THEN "dedup" ELSE "got"

\* ---- _get_new_ads: skip an empty id; is_new_ad: append to new_ads
GetNewAds_check(err) ==
    /\ module = "bot"
    /\ pc = "dedup"
    /\ LET ad == filtered_ads[idx]
           isnew == ad.id # EmptyId /\ is_new_ad(seen_ads, ad.id, err)
       IN /\ new_ads' = IF isnew THEN Append(new_ads, ad) ELSE new_ads
          /\ pc' = IF isnew THEN "mark" ELSE AfterAd
          /\ idx' = IF isnew THEN idx ELSE idx + 1
          /\ last_call' = IF ad.id = EmptyId
                          THEN Call("continue", <<ad.id, FALSE>>, FALSE, FALSE)
                          ELSE Call("is_new_ad", <<ad.id, err>>, isnew, FALSE)
          /\ hist' = [hist EXCEPT !.clean = @ /\ ~(err /\ ad.id # EmptyId)]
    /\ UNCHANGED pollvars
    /\ UNCHANGED <<module, now, seen_ads, searches, sqlite_sequence, listings>>
    /\ UNCHANGED restvars
    /\ UNCHANGED <<filtered_ads, queue, last_cleanup>>

\* ---- _get_new_ads: mark_as_seen of the ad just appended; an exception
\* leaves _run_once through its except clause
GetNewAds_mark(err) ==
    /\ module = "bot"
    /\ pc = "mark"
    /\ LET ad == new_ads[Len(new_ads)]
           raised == mark_as_seen_raises(err)
       IN /\ seen_ads' = mark_as_seen(seen_ads, ad.id, ad.title, ad.price,
                                      now, err)
          /\ last_call' = Call("mark_as_seen",
                               <<ad.id, ad.title, ad.price, err, Len(seen_ads),
                                 HasRow(seen_ads, ad.id)>>, FALSE, raised)
          /\ IF raised
             THEN /\ pc' = "idle"
                  /\ NoLocals
                  /\ hist' = EndCycle([hist EXCEPT !.clean = FALSE])
             ELSE /\ pc' = AfterAd
                  /\ idx' = idx + 1
                  /\ UNCHANGED <<filtered_ads, new_ads, queue>>
                  /\ hist' = [hist EXCEPT !.clean = @ /\ ~err,
                                          !.written = @ \cup {ad.id}]
    /\ UNCHANGED pollvars
    /\ UNCHANGED <<module, now, searches, sqlite_sequence, listings>>
    /\ UNCHANGED restvars
    /\ UNCHANGED last_cleanup

\* ---- _run_once: new_ads is complete; send_telegram(reversed(new_ads))
RunOnce_notify ==
    /\ module = "bot"
    /\ pc = "got"
    /\ queue' = Reverse(new_ads)
    /\ pc' = IF new_ads # <<>> THEN "notify" ELSE "cleanup"
    /\ filtered_ads' = <<>>
    /\ idx' = 0
    /\ new_ads' = <<>>
    /\ last_call' = CallIds("send_telegram", <<>>, new_ads # <<>>, FALSE,
                            Ids(new_ads))
    /\ hist' = [hist EXCEPT !.prev_ids = Ids(filtered_ads) \ {EmptyId},
                            !.was_new = @ \cup Ids(new_ads)]
    /\ UNCHANGED pollvars
    /\ UNCHANGED <<module, now, seen_ads, searches, sqlite_sequence, listings>>
    /\ UNCHANGED restvars
    /\ UNCHANGED last_cleanup

\* ---- send_telegram: _send_ad_to_chat for the next ad; ok: an attempt got
\* through, ~ok: every attempt failed
SendAdToChat(ok) ==
    /\ module = "bot"
    /\ pc = "notify"
    /\ LET ad == Head(queue) IN
       /\ queue' = Tail(queue)
       /\ pc' = IF Tail(queue) = <<>> THEN "cleanup" ELSE "notify"
       /\ last_call' = Call("_send_ad_to_chat", <<ad.id>>, ok, FALSE)
       /\ hist' = [hist EXCEPT !.failed = IF ok THEN @ \ {ad.id}
                                          ELSE @ \cup {ad.id}]
    /\ UNCHANGED pollvars
    /\ UNCHANGED <<module, now, seen_ads, searches, sqlite_sequence, listings>>
    /\ UNCHANGED restvars
    /\ UNCHANGED <<filtered_ads, idx, new_ads, last_cleanup>>

\* the cleanup of _run_once, made in every cycle that reaches it once the
\* attribute is set
RunOnce_cleanup_always(err) ==
    /\ module = "bot"
    /\ pc = "cleanup"
    /\ IF last_cleanup = NoTime
       THEN /\ last_cleanup' = now
            /\ UNCHANGED seen_ads
            /\ hist' = EndCycle(hist)
       ELSE /\ seen_ads' = cleanup_old_entries(seen_ads, cleanup_days, now, err)
            /\ last_cleanup' = now
            /\ hist' = EndCycle([hist EXCEPT !.prunes = Append(@, now),
                                             !.clean = FALSE])
    /\ pc' = "idle"
    /\ last_call' = Call("cleanup_old_entries", <<>>, seen_ads' # seen_ads, FALSE)
    /\ UNCHANGED pollvars
    /\ UNCHANGED <<module, now, searches, sqlite_sequence, listings>>
    /\ UNCHANGED restvars
    /\ UNCHANGED <<filtered_ads, idx, new_ads, queue>>

\* ---- _run_once: the cleanup, at most once a day
RunOnce_cleanup(err) ==
    /\ module = "bot"
    /\ pc = "cleanup"
    /\ IF last_cleanup = NoTime
       THEN /\ last_cleanup' = now
            /\ UNCHANGED seen_ads
            /\ hist' = EndCycle(hist)
       ELSE IF now - last_cleanup > OneDay
       THEN /\ seen_ads' = cleanup_old_entries(seen_ads, cleanup_days, now, err)
            /\ last_cleanup' = now
            /\ hist' = EndCycle([hist EXCEPT
                          !.prunes = Append(@, now),
                          !.clean =
                          /\ @
                          /\ ~err
                          /\ cleanup_old_entries(seen_ads, cleanup_days, now,
                                                 err) = seen_ads])
       ELSE /\ UNCHANGED <<seen_ads, last_cleanup>>
            /\ hist' = EndCycle(hist)
    /\ pc' = "idle"
    /\ last_call' = Call("cleanup_old_entries", <<>>, seen_ads' # seen_ads, FALSE)
    /\ UNCHANGED pollvars
    /\ UNCHANGED <<module, now, searches, sqlite_sequence, listings>>
    /\ UNCHANGED restvars
    /\ UNCHANGED <<filtered_ads, idx, new_ads, queue>>

\* ---- the process is killed; the database file stays.  The ids the cycle
\* had marked and not yet sent become missed.
Crash ==
    /\ module = "bot"
    /\ pc # "off"
    /\ pc' = "off"
    /\ NoLocals
    /\ last_cleanup' = NoTime
    /\ LET unsent == IF pc \in {"dedup", "mark", "got"} THEN hist.written
                     ELSE IF pc = "notify" THEN hist.written \cap Ids(queue)
                     ELSE {}
       IN /\ hist' = EndCycle([hist EXCEPT !.missed = @ \cup unsent])
          /\ last_call' = CallIds("crash", <<>>, FALSE, FALSE, unsent)
    /\ UNCHANGED pollvars
    /\ UNCHANGED <<loopvars, filtervars>>
    /\ UNCHANGED <<module, now, seen_ads, searches, sqlite_sequence, listings>>
    /\ UNCHANGED restvars

InitBot ==
    /\ module = "bot"
    /\ InitStore
    /\ config = NoConfig
    /\ request = [op |-> "none"]

NextBot ==
    \/ Tick
    \/ \E err \in BOOLEAN : Start(err)
    \/ \E ads \in SeqsUpTo(RawAds, MaxFeedLen) :
          RunOnce_fetch(ads) /\ UNCHANGED <<loopvars, filtervars>>
    \/ \E err \in BOOLEAN : GetNewAds_check(err) /\ UNCHANGED <<loopvars, filtervars>>
    \/ \E err \in BOOLEAN : GetNewAds_mark(err) /\ UNCHANGED <<loopvars, filtervars>>
    \/ RunOnce_notify /\ UNCHANGED <<loopvars, filtervars>>
    \/ \E ok \in BOOLEAN : SendAdToChat(ok) /\ UNCHANGED <<loopvars, filtervars>>
    \/ \E err \in BOOLEAN : RunOnce_cleanup(err) /\ UNCHANGED <<loopvars, filtervars>>
    \/ Crash

SpecBot == InitBot /\ [][NextBot]_vars

(***************************************************************************)
(* src/_old_bot_backup/main.py : KleinanzeigenBot, the multi-search bot.   *)
(* A price is a number of cents; shipping_type is the sequence of markers  *)
(* the scraper joined.                                                     *)
(***************************************************************************)
\* seconds that pass with one step of the clock
TickSeconds == 150

\* json.loads(row["exclude_keywords"]) if row["exclude_keywords"] else []
JsonLoads(text) == IF text = JsonNull THEN <<>> ELSE text[2]

\* the rows in the order of ORDER BY search_id
RECURSIVE OrderBySearchId(_)
OrderBySearchId(table) ==
    IF table = <<>> THEN <<>>
    ELSE LET i == CHOOSE i \in 1..Len(table) :
                     \A j \in 1..Len(table) :
                        table[i].search_id <= table[j].search_id
         IN <<table[i]>> \o OrderBySearchId(
                SubSeq(table, 1, i - 1) \o SubSeq(table, i + 1, Len(table)))

\* get_active_searches: the rows WHERE active = 1, exclude_keywords decoded;
\* [] on sqlite3.Error
get_active_searches(table, err) ==
    IF err THEN <<>>
    ELSE LET rows == OrderBySearchId(SelectSeq(table, LAMBDA r : r.active))
         IN [i \in 1..Len(rows) |->
                [rows[i] EXCEPT !.exclude_keywords = JsonLoads(@)]]

\* update_search_last_check: UPDATE searches SET last_check = now WHERE
\* search_id = ?; a sqlite3.Error is logged and swallowed
update_search_last_check(table, search_id, t, err) ==
    IF err THEN table
    ELSE [i \in 1..Len(table) |->
             IF table[i].search_id = search_id
             THEN [table[i] EXCEPT !.last_check = t] ELSE table[i]]

\* a _should_run_search without the interval test
should_run_search_always(search, t, raises) == TRUE

\* _should_run_search: no last_check, or the interval has elapsed; an
\* exception while the interval is computed counts as due
should_run_search(search, t, raises) ==
    IF search.last_check = NoTime THEN TRUE
    ELSE IF raises THEN TRUE
    ELSE (t - search.last_check) * TickSeconds >= search.interval_seconds

ShippingTypes ==
    { <<>>, <<"Versand">>, <<"Abholung">>, <<"Versand", "/", "Abholung">> }

OldAd(id, title, price, is_gesuch, shipping_type) ==
    [id |-> id, title |-> title, price |-> price, is_gesuch |-> is_gesuch,
     shipping_type |-> shipping_type]

\* a filter whose price bounds are exclusive
old_PassesFilter_exclusive(ad, search) ==
    /\ ad.price # NoPrice =>
          /\ ~(search.price_min # NoPrice /\ ad.price <= search.price_min)
          /\ ~(search.price_max # NoPrice /\ ad.price >= search.price_max)
    /\ ~ad.is_gesuch
    /\ \A k \in 1..Len(search.exclude_keywords) :
          ~Contains(Lower(search.exclude_keywords[k]), Lower(ad.title))
    /\ search.shipping_preference # "both" =>
          /\ search.shipping_preference = "pickup" =>
                Contains(<<"Abholung">>, ad.shipping_type)
          /\ search.shipping_preference = "shipping" =>
                Contains(<<"Versand">>, ad.shipping_type)

\* a filter without the upper price bound
old_PassesFilter_nomax(ad, search) ==
    /\ ad.price # NoPrice =>
          ~(search.price_min # NoPrice /\ ad.price < search.price_min)
    /\ ~ad.is_gesuch
    /\ \A k \in 1..Len(search.exclude_keywords) :
          ~Contains(Lower(search.exclude_keywords[k]), Lower(ad.title))
    /\ search.shipping_preference # "both" =>
          /\ search.shipping_preference = "pickup" =>
                Contains(<<"Abholung">>, ad.shipping_type)
          /\ search.shipping_preference = "shipping" =>
                Contains(<<"Versand">>, ad.shipping_type)

\* a filter that lets wanted ads through when nothing else is configured
old_PassesFilter_gesuch(ad, search) ==
    /\ ad.price # NoPrice =>
          /\ ~(search.price_min # NoPrice /\ ad.price < search.price_min)
          /\ ~(search.price_max # NoPrice /\ ad.price > search.price_max)
    /\ ad.is_gesuch => search = NoConfig
    /\ \A k \in 1..Len(search.exclude_keywords) :
          ~Contains(Lower(search.exclude_keywords[k]), Lower(ad.title))
    /\ search.shipping_preference # "both" =>
          /\ search.shipping_preference = "pickup" =>
                Contains(<<"Abholung">>, ad.shipping_type)
          /\ search.shipping_preference = "shipping" =>
                Contains(<<"Versand">>, ad.shipping_type)

\* a filter without the shipping preference
old_PassesFilter_anyship(ad, search) ==
    /\ ad.price # NoPrice =>
          /\ ~(search.price_min # NoPrice /\ ad.price < search.price_min)
          /\ ~(search.price_max # NoPrice /\ ad.price > search.price_max)
    /\ ~ad.is_gesuch
    /\ \A k \in 1..Len(search.exclude_keywords) :
          ~Contains(Lower(search.exclude_keywords[k]), Lower(ad.title))

\* _filter_ads: what one ad has to satisfy to be kept for a search
old_PassesFilter(ad, search) ==
    /\ ad.price # NoPrice =>
          /\ ~(search.price_min # NoPrice /\ ad.price < search.price_min)
          /\ ~(search.price_max # NoPrice /\ ad.price > search.price_max)
    /\ ~ad.is_gesuch
    /\ \A k \in 1..Len(search.exclude_keywords) :
          ~Contains(Lower(search.exclude_keywords[k]), Lower(ad.title))
    /\ search.shipping_preference # "both" =>
          /\ search.shipping_preference = "pickup" =>
                Contains(<<"Abholung">>, ad.shipping_type)
          /\ search.shipping_preference = "shipping" =>
                Contains(<<"Versand">>, ad.shipping_type)

\* _filter_ads(ads, search)
old_filter_ads(ads, search) ==
    SelectSeq(ads, LAMBDA ad : old_PassesFilter(ad, search))

\* an _execute_search whose except clause lets the exception through
execute_search_propagates_all(raised) == raised

\* _execute_search: its except Exception clause logs the exception of a
\* cycle and returns, so nothing reaches the caller
execute_search_propagates(raised) == FALSE

\* what fetch_ads can return to a cycle: nothing, an offer, a wanted ad
\* followed by an offer
PollFeeds ==
    { <<>>,
      <<OldAd(1, TitleOk, 10, FALSE, <<"Versand">>)>>,
      <<OldAd(2, TitleOk, 10, TRUE, <<>>), OldAd(1, TitleOk, 10, FALSE, <<>>)>> }

\* where a cycle can raise: nowhere, before it has ads, after the dedup
Fails == {"none", "fetch", "notify"}

\* a loop that never looks at the flag
breaks_never(flag) == FALSE

\* while self.running / if not self.running: break
breaks(flag) == ~flag

\* ---- run(): the bot enters its loop
Run ==
    /\ module = "old_database"
    /\ pc = "off"
    /\ pc' = "while"
    /\ last_call' = Call("run", <<>>, FALSE, FALSE)
    /\ UNCHANGED <<module, now, seen_ads, searches, sqlite_sequence, listings>>
    /\ UNCHANGED restvars
    /\ UNCHANGED <<filtered_ads, idx, new_ads, queue, last_cleanup, hist>>
    /\ UNCHANGED <<running, active_searches, pass_log>>
    /\ UNCHANGED <<loopvars, filtervars>>

\* ---- while self.running: get_active_searches; none: sleep(60), continue
Run_while(err) ==
    /\ module = "old_database"
    /\ pc = "while"
    /\ IF breaks(running)
       THEN /\ pc' = "exited"
            /\ UNCHANGED <<idx, active_searches, pass_log>>
            /\ last_call' = Call("exit", <<>>, FALSE, FALSE)
       ELSE LET rows == get_active_searches(searches, err) IN
            /\ active_searches' = rows
            /\ pass_log' = <<>>
            /\ idx' = 1
            /\ pc' = IF rows = <<>> THEN "sleep" ELSE "for"
            /\ last_call' = CallIds("get_active_searches", <<>>, rows # <<>>,
                                    FALSE,
                                    {rows[i].search_id : i \in 1..Len(rows)})
    /\ UNCHANGED <<module, now, seen_ads, searches, sqlite_sequence, listings>>
    /\ UNCHANGED restvars
    /\ UNCHANGED <<filtered_ads, new_ads, queue, last_cleanup, hist>>
    /\ UNCHANGED running
    /\ UNCHANGED <<loopvars, filtervars>>

\* ---- for search in active_searches: the pass ends with the list, or with
\* the break when the flag is found cleared
Run_for ==
    /\ module = "old_database"
    /\ pc = "for"
    /\ IF idx > Len(active_searches) \/ breaks(running)
       THEN pc' = "sleep" /\ idx' = 0
       ELSE pc' = "due" /\ idx' = idx
    /\ last_call' = Call("for", <<>>, pc' = "due", FALSE)
    /\ UNCHANGED <<module, now, seen_ads, searches, sqlite_sequence, listings>>
    /\ UNCHANGED restvars
    /\ UNCHANGED <<filtered_ads, new_ads, queue, last_cleanup, hist>>
    /\ UNCHANGED <<running, active_searches, pass_log>>
    /\ UNCHANGED <<loopvars, filtervars>>

\* ---- if self._should_run_search(search): the search is executed
Run_should_run ==
    /\ module = "old_database"
    /\ pc = "due"
    /\ LET search == active_searches[idx]
           due == should_run_search(search, now, FALSE)
       IN /\ pc' = IF due THEN "exec" ELSE "for"
          /\ idx' = IF due THEN idx ELSE idx + 1
          /\ last_call' = Call("_should_run_search",
                               <<search.search_id>>, due, FALSE)
    /\ UNCHANGED <<module, now, seen_ads, searches, sqlite_sequence, listings>>
    /\ UNCHANGED restvars
    /\ UNCHANGED <<filtered_ads, new_ads, queue, last_cleanup, hist>>
    /\ UNCHANGED <<running, active_searches, pass_log>>
    /\ UNCHANGED <<loopvars, filtervars>>

\* ---- _execute_search(search): fetch; no ads: return; filter, dedup,
\* notify, update_search_last_check.  An exception ends the cycle where it
\* is raised (fail); err, err2: sqlite3.Error in the dedup, in the update.
Execute_search(ads, fail, err, err2) ==
    /\ module = "old_database"
    /\ pc = "exec"
    /\ LET search == active_searches[idx]
           r == old_get_new_ads(seen_ads, old_filter_ads(ads, search),
                                search.search_id, now, err)
           outcome == IF fail = "fetch" THEN "raised"
                      ELSE IF ads = <<>> THEN "empty"
                      ELSE IF fail = "notify" /\ r.new_ads # <<>> THEN "raised"
                      ELSE "done"
           dedup == fail # "fetch" /\ ads # <<>>
       IN /\ seen_ads' = IF dedup THEN r.seen_ads ELSE seen_ads
          /\ searches' = IF outcome = "done"
                         THEN update_search_last_check(searches,
                                  search.search_id, now, err2)
                         ELSE searches
          /\ pass_log' = Append(pass_log, [search_id |-> search.search_id,
                                           outcome |-> outcome])
          /\ last_call' = CallIds("_execute_search",
                                  <<search.search_id, outcome, err2>>,
                                  outcome = "done", outcome = "raised",
                                  IF outcome = "done" THEN Ids(r.new_ads)
                                  ELSE {})
          /\ IF execute_search_propagates(outcome = "raised")
             THEN pc' = "sleep" /\ idx' = 0
             ELSE pc' = "for" /\ idx' = idx + 1
    /\ UNCHANGED <<module, now, sqlite_sequence, listings>>
    /\ UNCHANGED restvars
    /\ UNCHANGED <<filtered_ads, new_ads, queue, last_cleanup, hist>>
    /\ UNCHANGED <<running, active_searches>>
    /\ UNCHANGED <<loopvars, filtervars>>

\* ---- await asyncio.sleep(...) at the end of a pass is over
Sleep ==
    /\ module = "old_database"
    /\ pc = "sleep"
    /\ pc' = "while"
    /\ last_call' = Call("slept", <<>>, FALSE, FALSE)
    /\ UNCHANGED <<module, now, seen_ads, searches, sqlite_sequence, listings>>
    /\ UNCHANGED restvars
    /\ UNCHANGED <<filtered_ads, idx, new_ads, queue, last_cleanup, hist>>
    /\ UNCHANGED <<running, active_searches, pass_log>>
    /\ UNCHANGED <<loopvars, filtervars>>

\* ---- _signal_handler: SIGINT or SIGTERM arrives
signal_handler ==
    /\ pc # "exited"
    /\ running
    /\ running' = FALSE
    /\ last_call' = Call("_signal_handler", <<>>, FALSE, FALSE)
    /\ UNCHANGED <<module, now, seen_ads, searches, sqlite_sequence, listings>>
    /\ UNCHANGED restvars
    /\ UNCHANGED <<pc, filtered_ads, idx, new_ads, queue, last_cleanup, hist>>
    /\ UNCHANGED <<active_searches, pass_log>>
    /\ UNCHANGED <<loopvars, filtervars>>

\* the poll loop of the multi-search bot takes its next step
PollStep ==
    \/ Run
    \/ \E err \in BOOLEAN : Run_while(err)
    \/ Run_for
    \/ Run_should_run
    \/ \E ads \in PollFeeds, fail \in Fails, err2 \in BOOLEAN :
          Execute_search(ads, fail, FALSE, err2)
    \/ Sleep

\* the commands of a user who adds, pauses and resumes searches
HandlerCalls ==
    \/ Call_add_search("u1", FALSE)
    \/ \E search_id \in SearchIds : Call_pause_search(search_id, "u1", FALSE)
    \/ \E search_id \in SearchIds : Call_resume_search(search_id, "u1", FALSE)

\* the poll loop runs while the commands of a user arrive, time passes
\* between two passes and a signal may arrive
NextPoll == PollStep \/ HandlerCalls \/ Tick \/ signal_handler

SpecPoll == InitOld /\ [][NextPoll]_vars

(***************************************************************************)
(* src/main.py : run(), the loop around _run_once, and the shutdown of     *)
(* both bots.                                                              *)
(***************************************************************************)
\* self.interval, the seconds between two cycles
interval == 2

\* ---- while self.running: the loop is left, or _run_once is called
Loop_while ==
    /\ module = "bot"
    /\ pc = "idle"
    /\ loop = "while"
    /\ hist.cycles < MaxCycles \/ breaks(running)
    /\ loop' = IF breaks(running) THEN "exited" ELSE "cycle"
    /\ last_call' = Call("while", <<>>, ~breaks(running), FALSE)
    /\ UNCHANGED <<module, now, seen_ads, searches, sqlite_sequence, listings>>
    /\ UNCHANGED restvars
    /\ UNCHANGED botvars
    /\ UNCHANGED pollvars
    /\ UNCHANGED <<waited, filtervars>>

\* ---- await self._run_once(): the cycle begins
Loop_run_once(ads) ==
    /\ loop = "cycle"
    /\ RunOnce_fetch(ads)
    /\ loop' = "ran"
    /\ UNCHANGED <<waited, filtervars>>

\* ---- after _run_once: if not self.running: break; else the wait begins
Loop_after ==
    /\ module = "bot"
    /\ pc = "idle"
    /\ loop = "ran"
    /\ loop' = IF breaks(running) THEN "exited" ELSE "wait"
    /\ waited' = 0
    /\ last_call' = Call("after", <<>>, ~breaks(running), FALSE)
    /\ UNCHANGED <<module, now, seen_ads, searches, sqlite_sequence, listings>>
    /\ UNCHANGED restvars
    /\ UNCHANGED botvars
    /\ UNCHANGED filtervars
    /\ UNCHANGED pollvars

\* ---- for _ in range(self.interval): if not self.running: break
Loop_wait ==
    /\ module = "bot"
    /\ loop = "wait"
    /\ loop' = IF waited >= interval \/ breaks(running) THEN "while"
               ELSE "sleep1"
    /\ last_call' = Call("wait", <<waited>>, loop' = "sleep1", FALSE)
    /\ UNCHANGED <<module, now, seen_ads, searches, sqlite_sequence, listings>>
    /\ UNCHANGED restvars
    /\ UNCHANGED botvars
    /\ UNCHANGED pollvars
    /\ UNCHANGED <<waited, filtervars>>

\* ---- await asyncio.sleep(1) is over
Loop_slept ==
    /\ module = "bot"
    /\ loop = "sleep1"
    /\ loop' = "wait"
    /\ waited' = waited + 1
    /\ last_call' = Call("slept", <<>>, FALSE, FALSE)
    /\ UNCHANGED <<module, now, seen_ads, searches, sqlite_sequence, listings>>
    /\ UNCHANGED restvars
    /\ UNCHANGED botvars
    /\ UNCHANGED filtervars
    /\ UNCHANGED pollvars

\* the single-search bot takes its next step
LoopStep ==
    \/ \E err \in BOOLEAN : Start(err)
    \/ Loop_while
    \/ \E ads \in SeqsUpTo(RawAds, 1) : Loop_run_once(ads)
    \/ \E err \in BOOLEAN : GetNewAds_check(err) /\ UNCHANGED <<loopvars, filtervars>>
    \/ \E err \in BOOLEAN : GetNewAds_mark(err) /\ UNCHANGED <<loopvars, filtervars>>
    \/ RunOnce_notify /\ UNCHANGED <<loopvars, filtervars>>
    \/ \E ok \in BOOLEAN : SendAdToChat(ok) /\ UNCHANGED <<loopvars, filtervars>>
    \/ \E err \in BOOLEAN : RunOnce_cleanup(err) /\ UNCHANGED <<loopvars, filtervars>>
    \/ Loop_after
    \/ Loop_wait
    \/ Loop_slept

InitShutdown ==
    /\ module \in {"old_database", "bot"}
    /\ InitStore
    /\ config = NoConfig
    /\ request = [op |-> "none"]

\* either bot runs, a user adds searches, and a signal may arrive at any
\* moment
NextShutdown ==
    \/ PollStep
    \/ LoopStep
    \/ Call_add_search("u1", FALSE)
    \/ signal_handler

\* a coroutine that can go on does go on: every sleep ends, every request of
\* a cycle returns or times out
SpecShutdown ==
    /\ InitShutdown
    /\ [][NextShutdown]_vars
    /\ WF_vars(PollStep)
    /\ WF_vars(LoopStep)

(***************************************************************************)
(* _filter_ads of both bots, called for every search configuration.        *)
(* src/main.py reads price_min, price_max and exclude_keywords from its     *)
(* configuration, _old_bot_backup/main.py from the row of the search.      *)
(***************************************************************************)
MaxFilterLen == 2

\* a filter that lets an ad without a price pass only an ordered range
PassesFilterWith_strict(ad, cfg) ==
    /\ ~(cfg.price_min # NoPrice /\ ad.price < cfg.price_min)
    /\ ~(cfg.price_max # NoPrice /\ ad.price # NoPrice
         /\ ad.price > cfg.price_max)
    /\ ~ad.is_gesuch
    /\ ~\E k \in 1..Len(cfg.exclude_keywords) :
           Contains(Lower(cfg.exclude_keywords[k]), Lower(ad.title))

\* one iteration of _filter_ads of src/main.py under the configuration cfg
PassesFilterWith(ad, cfg) ==
    /\ ad.price # NoPrice
          => /\ ~(cfg.price_min # NoPrice /\ ad.price < cfg.price_min)
             /\ ~(cfg.price_max # NoPrice /\ ad.price > cfg.price_max)
    /\ ~ad.is_gesuch
    /\ ~\E k \in 1..Len(cfg.exclude_keywords) :
           Contains(Lower(cfg.exclude_keywords[k]), Lower(ad.title))

\* _filter_ads(ads) of src/main.py under the configuration cfg
filter_ads_with(list, cfg) ==
    SelectSeq(list, LAMBDA ad : PassesFilterWith(ad, cfg))

\* prices in cents: none, and the cents around the bounds 10 and 20
FilterPrices == {NoPrice, 9, 10, 11, 19, 20, 21}

\* the search configurations: each bound unset, 10 or 20 (20 above 10 is an
\* inverted range), with or without an excluded keyword
FilterConfigs ==
    [price_min : {NoPrice, 10, 20}, price_max : {NoPrice, 10, 20},
     exclude_keywords : {<<>>, exclude_keywords},
     shipping_preference : {"both", "pickup", "shipping"}]

\* what the scraper can return: offers carry the id 1, wanted ads the id 2
FilterAds ==
    {OldAd(IF g THEN 2 ELSE 1, title, price, g, shipping_type) :
        title \in {TitleOk, TitleExcluded}, price \in FilterPrices,
        g \in BOOLEAN, shipping_type \in ShippingTypes}

\* the ads of the longer lists: an offer, a wanted ad, an offer with an
\* excluded title and a high price, an offer without a price
FilterListAds ==
    {OldAd(1, TitleOk, 10, FALSE, <<"Versand">>),
     OldAd(2, TitleOk, 10, TRUE, <<>>),
     OldAd(1, TitleExcluded, 21, FALSE, <<"Abholung">>),
     OldAd(1, TitleOk, NoPrice, FALSE, <<"Versand", "/", "Abholung">>)}

\* the lists _filter_ads is called with: every single ad, and the lists of
\* up to MaxFilterLen of the ads above
FilterLists ==
    {<<ad>> : ad \in FilterAds} \cup SeqsUpTo(FilterListAds, MaxFilterLen)

\* ---- _filter_ads(ads, search) of the multi-search bot
Call_old_filter_ads(list) ==
    /\ module = "old_bot_filter"
    /\ fetched' = list
    /\ filtered_ads' = old_filter_ads(list, config)
    /\ new_ads' = <<>>
    /\ last_call' = CallIds("_filter_ads", <<>>, TRUE, FALSE,
                            Ids(old_filter_ads(list, config)))
    /\ UNCHANGED <<module, now, seen_ads, searches, sqlite_sequence, listings>>
    /\ UNCHANGED restvars
    /\ UNCHANGED <<pc, idx, queue, last_cleanup, hist>>
    /\ UNCHANGED pollvars
    /\ UNCHANGED <<loopvars, config>>

\* ---- _get_new_ads(filtered_ads, search_id) and send_telegram, the steps of
\* _execute_search that follow the filter
Call_old_dedup(search_id) ==
    /\ module = "old_bot_filter"
    /\ last_call.op = "_filter_ads"
    /\ LET r == old_get_new_ads(seen_ads, filtered_ads, search_id, now, FALSE)
       IN /\ seen_ads' = r.seen_ads
          /\ new_ads' = r.new_ads
          /\ last_call' = CallIds("send_telegram", <<>>, r.new_ads # <<>>,
                                  FALSE, Ids(r.new_ads))
    /\ UNCHANGED <<module, now, searches, sqlite_sequence, listings>>
    /\ UNCHANGED restvars
    /\ UNCHANGED <<pc, filtered_ads, idx, queue, last_cleanup, hist>>
    /\ UNCHANGED pollvars
    /\ UNCHANGED <<loopvars, filtervars>>

\* ---- _filter_ads(ads) of the single-search bot
Call_filter_ads(list) ==
    /\ module = "bot_filter"
    /\ fetched' = list
    /\ filtered_ads' = filter_ads_with(list, config)
    /\ last_call' = CallIds("_filter_ads", <<>>, TRUE, FALSE,
                            Ids(filter_ads_with(list, config)))
    /\ UNCHANGED <<module, now, seen_ads, searches, sqlite_sequence, listings>>
    /\ UNCHANGED restvars
    /\ UNCHANGED <<pc, idx, new_ads, queue, last_cleanup, hist>>
    /\ UNCHANGED pollvars
    /\ UNCHANGED <<loopvars, config>>

\* the bot is constructed for one search configuration; the single-search
\* bot has no shipping preference
InitFilter ==
    /\ module \in {"old_bot_filter", "bot_filter"}
    /\ InitStore
    /\ config \in FilterConfigs
    /\ request = [op |-> "none"]
    /\ module = "bot_filter" => config.shipping_preference = "both"

NextFilter ==
    \/ \E list \in FilterLists : Call_old_filter_ads(list)
    \/ Call_old_dedup(1)
    \/ \E list \in FilterLists : Call_filter_ads(list)

SpecFilter == InitFilter /\ [][NextFilter]_vars

(***************************************************************************)
(* src/src/parser.py, src/src/utils.py : the attribute parser of the DDR5  *)
(* bot.  A text is a string; a character is a string of length one.        *)
(***************************************************************************)
\* Python None in a string-typed field (no text of the model equals it)
None == "<None>"

LowerLetters == "abcdefghijklmnopqrstuvwxyzäöü"
UpperLetters == "ABCDEFGHIJKLMNOPQRSTUVWXYZÄÖÜ"
Digits == "0123456789"

CharAt(s, i) == SubSeq(s, i, i)

Chars(s) == {CharAt(s, i) : i \in 1..Len(s)}

IndexIn(c, s) == CHOOSE i \in 1..Len(s) : CharAt(s, i) = c

\* str.lower() and str.upper() of one character
LowerOf == [c \in Chars(UpperLetters) |->
               CharAt(LowerLetters, IndexIn(c, UpperLetters))]

UpperOf == [c \in Chars(LowerLetters) |->
               CharAt(UpperLetters, IndexIn(c, LowerLetters))]

lower_char(c) == IF c \in DOMAIN LowerOf THEN LowerOf[c] ELSE c

upper_char(c) ==
    IF c \in DOMAIN UpperOf THEN UpperOf[c]
    ELSE IF c = "ß" THEN "SS"
    ELSE c

\* a text is converted half by half, a character by its table
RECURSIVE str_lower(_)
str_lower(s) ==
    IF Len(s) <= 1 THEN lower_char(s)
    ELSE str_lower(SubSeq(s, 1, Len(s) \div 2))
             \o str_lower(SubSeq(s, Len(s) \div 2 + 1, Len(s)))

RECURSIVE str_upper(_)
str_upper(s) ==
    IF Len(s) <= 1 THEN upper_char(s)
    ELSE str_upper(SubSeq(s, 1, Len(s) \div 2))
             \o str_upper(SubSeq(s, Len(s) \div 2 + 1, Len(s)))

\* the text as re.IGNORECASE compares it: letter case folded, no character
\* added or removed
RECURSIVE Fold(_)
Fold(s) ==
    IF Len(s) <= 1 THEN (IF s \in DOMAIN UpperOf THEN UpperOf[s] ELSE s)
    ELSE Fold(SubSeq(s, 1, Len(s) \div 2))
             \o Fold(SubSeq(s, Len(s) \div 2 + 1, Len(s)))

\* str.strip()
RECURSIVE str_strip(_)
str_strip(s) ==
    IF s = "" THEN ""
    ELSE IF CharAt(s, 1) = " " THEN str_strip(SubSeq(s, 2, Len(s)))
    ELSE IF CharAt(s, Len(s)) = " " THEN str_strip(SubSeq(s, 1, Len(s) - 1))
    ELSE s

\* `not value` is false: the value is neither None nor the empty string
Truthy(value) == value # None /\ value # ""

\* ---- regular expressions.  A pattern is a sequence of items; an item is a
\* literal text, or a character class with a greedy repetition min..max
\* (Unbounded for + and *).
Unbounded == 0 - 1

Item(cls, c, min, max) == [cls |-> cls, c |-> c, min |-> min, max |-> max]

\* the literal text s of a pattern compiled with re.IGNORECASE
Lit(s) == <<Item("lit", Fold(s), 1, 1)>>

\* the literal text s of a pattern compiled without flags
Exact(s) == <<Item("lit", s, 1, 1)>>

Rep(cls, min, max) == <<Item(cls, "", min, max)>>

DigitChars == Chars(Digits)

WordChars == DigitChars \cup Chars(LowerLetters) \cup Chars(UpperLetters)
                 \cup {"_", "ß"}

ClassHas(item, c) ==
    CASE item.cls = "d" -> c \in DigitChars
      [] item.cls = "w" -> c \in WordChars
      [] item.cls = "s" -> c = " "
      [] item.cls = "notslash" -> c # "/"
      [] item.cls = "x" -> c = "X"

MaxOf(S) == CHOOSE n \in S : \A m \in S : m <= n

MinOf(S) == CHOOSE n \in S : \A m \in S : n <= m

\* how many characters of the item's class follow each other from position
\* i of t, counted up to `most`
RECURSIVE RunLen(_, _, _, _)
RunLen(item, t, i, most) ==
    IF most = 0 \/ i > Len(t) THEN 0
    ELSE IF ~ClassHas(item, CharAt(t, i)) THEN 0
    ELSE 1 + RunLen(item, t, i + 1, most - 1)

\* The items k.. of pattern p matched at position i of t, as the backtracking
\* matcher of re does it: each item takes the most characters that still let
\* the rest match.  The position after the match, 0 when there is no match.
RECURSIVE MatchAt(_, _, _, _)
MatchAt(p, k, t, i) ==
    IF k > Len(p) THEN i
    ELSE IF p[k].cls = "lit"
    THEN IF SubSeq(t, i, Min(Len(t), i + Len(p[k].c) - 1)) = p[k].c
         THEN MatchAt(p, k + 1, t, i + Len(p[k].c))
         ELSE 0
    ELSE At({<<n, MatchAt(p, k + 1, t, i + n)>> :
                 n \in p[k].min..RunLen(p[k], t, i,
                                        IF p[k].max = Unbounded THEN Len(t)
                                        ELSE p[k].max)},
            LAMBDA tried :
                IF \A r \in tried : r[2] = 0 THEN 0
                ELSE (CHOOSE r \in tried :
                         /\ r[2] # 0
                         /\ \A q \in tried : q[2] # 0 => q[1] <= r[1])[2])

NoMatch == [start |-> 0, end |-> 0]

\* the first alternative that matches at position i of t (0: none does)
FirstAlternative(alternatives, t, i) ==
    At({a \in 1..Len(alternatives) : MatchAt(alternatives[a], 1, t, i) # 0},
       LAMBDA hit : IF hit = {} THEN 0 ELSE MinOf(hit))

\* re.search(pattern, text): the leftmost match.  A pattern with
\* alternatives (a|b) is the sequence of its alternatives; they are tried in
\* order at each position.  The text is folded for a pattern compiled with
\* re.IGNORECASE.
re_search(pattern, text) ==
    At(<<pattern, text>>, LAMBDA arg :
    At({i \in 1..(Len(arg[2]) + 1) : FirstAlternative(arg[1], arg[2], i) # 0},
       LAMBDA starts :
           IF starts = {} THEN NoMatch
           ELSE At(MinOf(starts), LAMBDA i :
                    [start |-> i,
                     end |-> MatchAt(
                                 arg[1][FirstAlternative(arg[1], arg[2], i)],
                                 1, arg[2], i)])))

\* match.group(0)
group0(t, m) == SubSeq(t, m.start, m.end - 1)

\* the digits a match ends with: group(1) of the latency patterns
RECURSIVE TrailingDigits(_)
TrailingDigits(s) ==
    IF s = "" THEN ""
    ELSE IF CharAt(s, Len(s)) \notin DigitChars THEN ""
    ELSE TrailingDigits(SubSeq(s, 1, Len(s) - 1)) \o CharAt(s, Len(s))

\* the first pattern of a list that matches t (0: none does)
FirstMatching(patterns, t) ==
    At({k \in 1..Len(patterns) : re_search(patterns[k], t) # NoMatch},
       LAMBDA hits : IF hits = {} THEN 0 ELSE MinOf(hits))

\* any(keyword in t for keyword in keywords)
AnyIn(keywords, text) ==
    At(text, LAMBDA t : \E k \in 1..Len(keywords) : Contains(keywords[k], t))

\* ---- the tables
W == Rep("w", 1, Unbounded)  \* \w+
D == Rep("d", 1, Unbounded)  \* \d+

MODEL_PATTERNS ==
    << [manufacturer |-> "Corsair",
        patterns |-> << << Lit("CMK") \o W >>, << Lit("CMT") \o W >>,
                        << Lit("CMH") \o W >>, << Lit("CMR") \o W >>,
                        << Lit("CMW") \o W >> >>],
       [manufacturer |-> "G.Skill",
        patterns |-> << << Lit("F5-") \o D \o W >>, << Lit("F5") \o W >>,
                        << Lit("F4-") \o D \o W >> >>],
       [manufacturer |-> "Kingston",
        patterns |-> << << Lit("KF") \o W >>, << Lit("KVR") \o W >>,
                        << Lit("KF") \o W >> >>],
       [manufacturer |-> "Crucial",
        patterns |-> << << Lit("CT") \o W >>, << Lit("BL") \o W >> >>],
       [manufacturer |-> "TeamGroup",
        patterns |-> << << Lit("TF") \o D \o Lit("D") \o W >>,
                        << Lit("TF") \o W >> >>],
       [manufacturer |-> "Patriot",
        patterns |-> << << Lit("PV") \o W >>, << Lit("PVB") \o W >> >>],
       [manufacturer |-> "ADATA",
        patterns |-> << << Lit("AX5U") \o W >>, << Lit("AD5U") \o W >> >>],
       [manufacturer |-> "Corsair Vengeance",
        patterns |-> << << Lit("CMK") \o D \o Lit("GX5M") \o D \o W >> >>] >>

MANUFACTURER_KEYWORDS ==
    << [manufacturer |-> "Corsair", keywords |-> <<"corsair">>],
       [manufacturer |-> "G.Skill",
        keywords |-> <<"g.skill", "gskill", "g skill">>],
       [manufacturer |-> "Kingston", keywords |-> <<"kingston">>],
       [manufacturer |-> "Crucial", keywords |-> <<"crucial">>],
       [manufacturer |-> "TeamGroup",
        keywords |-> <<"teamgroup", "team group">>],
       [manufacturer |-> "Patriot", keywords |-> <<"patriot">>],
       [manufacturer |-> "ADATA", keywords |-> <<"adata">>],
       [manufacturer |-> "Samsung", keywords |-> <<"samsung">>],
       [manufacturer |-> "SK Hynix", keywords |-> <<"sk hynix", "hynix">>],
       [manufacturer |-> "Micron", keywords |-> <<"micron">>] >>

COLOR_KEYWORDS ==
    << [color |-> "Schwarz", keywords |-> <<"schwarz", "black">>],
       [color |-> "Weiß", keywords |-> <<"weiß", "white", "weiss">>],
       [color |-> "RGB", keywords |-> <<"rgb", "led">>],
       [color |-> "Silber", keywords |-> <<"silber", "silver">>],
       [color |-> "Grau", keywords |-> <<"grau", "grey", "gray">>] >>

\* ---- RAMParser
\* the first manufacturer of MODEL_PATTERNS one of whose patterns matches
\* text_upper, with the first such pattern (<<0, 0>>: none matches)
FirstModelPattern(text_upper) ==
    At({m \in 1..Len(MODEL_PATTERNS) :
            FirstMatching(MODEL_PATTERNS[m].patterns, text_upper) # 0},
       LAMBDA hits :
           IF hits = {} THEN <<0, 0>>
           ELSE <<MinOf(hits),
                  FirstMatching(MODEL_PATTERNS[MinOf(hits)].patterns,
                                text_upper)>>)

\* a model-number extraction that lets a manufacturer keyword of the text
\* override the manufacturer of the pattern table
extract_model_number_keyword(t) ==
    At(str_upper(t), LAMBDA text_upper :
    At(FirstModelPattern(text_upper), LAMBDA hit :
    At({m \in 1..Len(MANUFACTURER_KEYWORDS) :
            AnyIn(MANUFACTURER_KEYWORDS[m].keywords, str_lower(t))},
       LAMBDA keyed :
           IF hit[1] = 0 THEN <<None, None>>
           ELSE <<group0(text_upper,
                         re_search(MODEL_PATTERNS[hit[1]].patterns[hit[2]],
                                   text_upper)),
                  IF keyed = {} THEN MODEL_PATTERNS[hit[1]].manufacturer
                  ELSE MANUFACTURER_KEYWORDS[MinOf(keyed)].manufacturer>>)))

\* extract_model_number(text): (model_number, manufacturer) of the first
\* pattern, in table order, that matches the uppercased text; re.IGNORECASE
\* changes nothing on an uppercased text
extract_model_number(t) ==
    At(str_upper(t), LAMBDA text_upper :
    At(FirstModelPattern(text_upper), LAMBDA hit :
           IF hit[1] = 0 THEN <<None, None>>
           ELSE <<group0(text_upper,
                         re_search(MODEL_PATTERNS[hit[1]].patterns[hit[2]],
                                   text_upper)),
                  MODEL_PATTERNS[hit[1]].manufacturer>>))

\* extract_manufacturer(text): the first manufacturer, in table order, one of
\* whose keywords is in the lowercased text
extract_manufacturer(t) ==
    At({m \in 1..Len(MANUFACTURER_KEYWORDS) :
            AnyIn(MANUFACTURER_KEYWORDS[m].keywords, str_lower(t))},
       LAMBDA keyed :
           IF keyed = {} THEN None
           ELSE MANUFACTURER_KEYWORDS[MinOf(keyed)].manufacturer)

\* (\d+x?\d*)\s*GB, twice
capacity_patterns ==
    LET p == D \o Rep("x", 0, 1) \o Rep("d", 0, Unbounded)
             \o Rep("s", 0, Unbounded) \o Lit("GB")
    IN << <<p>>, <<p>> >>

\* the text of the first match of the first pattern of a list that matches
\* the folded text (None: no pattern matches)
FirstGroup0(patterns, text) ==
    At(<<text, Fold(text)>>, LAMBDA t :
    At(FirstMatching(patterns, t[2]), LAMBDA k :
           IF k = 0 THEN None
           ELSE group0(t[1], re_search(patterns[k], t[2]))))

\* extract_capacity(text): match.group(0).upper()
extract_capacity(t) ==
    At(FirstGroup0(capacity_patterns, t), LAMBDA capacity :
           IF capacity = None THEN None ELSE str_upper(capacity))

\* (\d{4,5})\s*(MHz|MT/s|MT/s) and (\d{4,5})\s*(mhz)
speed_patterns ==
    LET n == Rep("d", 4, 5) \o Rep("s", 0, Unbounded)
    IN << <<n \o Lit("MHz"), n \o Lit("MT/s"), n \o Lit("MT/s")>>,
          <<n \o Lit("mhz")>> >>

\* extract_speed(text): match.group(0)
extract_speed(t) == FirstGroup0(speed_patterns, t)

\* CL\s*(\d{2,3}) and C(\d{2,3})
latency_patterns ==
    << <<Lit("CL") \o Rep("s", 0, Unbounded) \o Rep("d", 2, 3)>>,
       <<Lit("C") \o Rep("d", 2, 3)>> >>

\* extract_latency(text): "CL" and group(1)
extract_latency(t) ==
    At(FirstGroup0(latency_patterns, t), LAMBDA latency :
           IF latency = None THEN None ELSE "CL" \o TrailingDigits(latency))

\* extract_color(text)
extract_color(t) ==
    At({m \in 1..Len(COLOR_KEYWORDS) :
            AnyIn(COLOR_KEYWORDS[m].keywords, str_lower(t))},
       LAMBDA keyed :
           IF keyed = {} THEN None ELSE COLOR_KEYWORDS[MinOf(keyed)].color)

ovp_keywords ==
    <<"ovp", "originalverpackung", "original verpackt", "versiegelt",
      "unverschweißt">>

invoice_keywords == <<"rechnung", "kassenbon", "beleg", "garantie", "kaufbeleg">>

shipping_keywords ==
    <<"versand möglich", "versandkosten", "dhl", "porto", "versand">>

no_shipping_keywords == <<"nur abholung", "kein versand", "abholung nur">>

\* an extract_metadata that ignores the negative shipping keywords
extract_metadata_positive(t) ==
    At(str_lower(t), LAMBDA text_lower :
        [has_ovp |-> AnyIn(ovp_keywords, text_lower),
         has_invoice |-> AnyIn(invoice_keywords, text_lower),
         shipping_available |-> AnyIn(shipping_keywords, text_lower)])

\* extract_metadata(text)
extract_metadata(t) ==
    At(str_lower(t), LAMBDA text_lower :
        LET has_shipping_keywords == AnyIn(shipping_keywords, text_lower)
            has_no_shipping_keywords ==
                AnyIn(no_shipping_keywords, text_lower)
        IN [has_ovp |-> AnyIn(ovp_keywords, text_lower),
            has_invoice |-> AnyIn(invoice_keywords, text_lower),
            shipping_available |->
                has_shipping_keywords /\ ~has_no_shipping_keywords])

\* is_ddr5(title, description) of src/src/utils.py
is_ddr5(title, description) ==
    FirstMatching(<< <<Lit("ddr5")>>,
                     <<Lit("ddr") \o Rep("s", 0, Unbounded) \o Lit("5")>>,
                     <<Lit("ddr-5")>>,
                     <<Lit("d5")>> >>,
                  Fold(str_lower(title \o " " \o description))) # 0

defect_keywords == <<"defekt", "kaputt", "beschädigt", "schaden">>

\* calculate_priority_score without the lower clamp
calculate_priority_score_unclamped(l) ==
       (IF Truthy(l.specs.model_number) THEN 5 ELSE 0)
       + (IF l.has_ovp THEN 3 ELSE 0)
       + (IF l.has_invoice THEN 3 ELSE 0)
       + (IF l.shipping_available THEN 2 ELSE 0)
       + (IF /\ Truthy(l.specs.manufacturer)
             /\ Truthy(l.specs.capacity)
             /\ Truthy(l.specs.speed)
             /\ Truthy(l.specs.latency) THEN 2 ELSE 0)
       + (IF Truthy(l.specs.color) THEN 1 ELSE 0)
       - (IF AnyIn(defect_keywords,
                   str_lower(l.title \o " " \o l.raw_description))
          THEN 2 ELSE 0)

\* calculate_priority_score(listing) of src/src/utils.py
calculate_priority_score(l) ==
    Max(0, (IF Truthy(l.specs.model_number) THEN 5 ELSE 0)
           + (IF l.has_ovp THEN 3 ELSE 0)
           + (IF l.has_invoice THEN 3 ELSE 0)
           + (IF l.shipping_available THEN 2 ELSE 0)
           + (IF /\ Truthy(l.specs.manufacturer)
                 /\ Truthy(l.specs.capacity)
                 /\ Truthy(l.specs.speed)
                 /\ Truthy(l.specs.latency) THEN 2 ELSE 0)
           + (IF Truthy(l.specs.color) THEN 1 ELSE 0)
           - (IF AnyIn(defect_keywords,
                       str_lower(l.title \o " " \o l.raw_description))
              THEN 2 ELSE 0))

\* parse_listing returned None
NoListing == [none |-> TRUE]

\* RAMSpecifications(model_number=..., manufacturer=...)
RAMSpecifications(model_number, manufacturer) ==
    [model_number |-> model_number, manufacturer |-> manufacturer,
     capacity |-> None, speed |-> None, latency |-> None, color |-> None]

\* parse_listing(ad_id, title, description, ...): the Listing returned and
\* the extractors called.  price, location, url and posted_date are copied
\* into the Listing as they are and left out, as is posted_timestamp.
parse_listing(ad_id, title, description) ==
    IF ~is_ddr5(title, description)
    THEN [listing |-> NoListing, calls |-> {"is_ddr5"}]
    ELSE
    At(str_strip(title \o " " \o description), LAMBDA full_text :
    At(extract_model_number(full_text), LAMBDA found :
    At(extract_metadata(full_text), LAMBDA meta :
    At(RAMSpecifications(found[1], found[2]), LAMBDA specs :
    At(~Truthy(specs.model_number) /\ ~Truthy(specs.manufacturer),
       LAMBDA fallback :
    At([ad_id |-> ad_id, title |-> title,
        has_ovp |-> meta.has_ovp,
        has_invoice |-> meta.has_invoice,
        shipping_available |-> meta.shipping_available,
        specs |-> [specs EXCEPT
                      !.manufacturer = IF fallback
                                       THEN extract_manufacturer(full_text)
                                       ELSE @,
                      !.capacity = extract_capacity(full_text),
                      !.speed = extract_speed(full_text),
                      !.latency = extract_latency(full_text),
                      !.color = extract_color(full_text)],
        raw_description |-> description,
        priority_score |-> 0],
       LAMBDA built :
           [listing |-> [built EXCEPT
                            !.priority_score = calculate_priority_score(built)],
            calls |-> {"is_ddr5", "extract_model_number", "extract_capacity",
                       "extract_speed", "extract_latency", "extract_color",
                       "extract_metadata", "calculate_priority_score"}
                      \cup (IF fallback THEN {"extract_manufacturer"}
                            ELSE {})]))))))

\* ---- src/src/telegram_bot.py : send_listings
\* sorted(listings, key=priority_score, reverse=True): a stable sort
RECURSIVE sorted_by_priority(_)
sorted_by_priority(list) ==
    IF list = <<>> THEN <<>>
    ELSE LET i == CHOOSE i \in 1..Len(list) :
                     /\ \A j \in 1..Len(list) :
                           list[j].priority_score <= list[i].priority_score
                     /\ \A j \in 1..(i - 1) :
                           list[j].priority_score < list[i].priority_score
         IN <<list[i]>> \o sorted_by_priority(
                SubSeq(list, 1, i - 1) \o SubSeq(list, i + 1, Len(list)))

\* list[:n]
Slice(list, n) ==
    IF n >= 0 THEN SubSeq(list, 1, Min(n, Len(list)))
    ELSE SubSeq(list, 1, Max(0, Len(list) + n))

\* a send_listings that does not sort
send_listings_unsorted(list, max_count) == Slice(list, max_count)

\* send_listings(listings, max_count): the listings passed to send_listing,
\* in that order
send_listings(list, max_count) == Slice(sorted_by_priority(list), max_count)

\* ---- the inputs
ParserTitles ==
    {"DDR5 RAM Corsair CMK32GX5M2B5200C40 NEU OVP",
     "Kingston Fury DDR5 KF556C40",
     "G.Skill DDR5 32GB 6000MHz CL36",
     "Crucial CT16G48C40S5 DDR5 Corsair Kit",
     "Samsung DDR5 Black 4800 MHz",
     "Kingston DDR5 RAM defekt",
     "DDR5 defekt",
     "DDR 5 RAM 16GB",
     "DDR4 RAM 16GB Corsair CMK16GX4M2B3200C16"}

ParserDescriptions ==
    {"",
     "Rechnung vorhanden, Versand möglich",
     "Nur Abholung, kein Versand",
     "OVP, Versand per DHL oder Abholung",
     "Versandkosten 5 Euro. Abholung nur nach Absprache",
     "Abholung in Berlin",
     "2x16GB 6000 MT/s CL30 RGB",
     "leider kaputt, Kaufbeleg dabei"}

ParserTexts ==
    {str_strip(t \o " " \o d) : t \in ParserTitles, d \in ParserDescriptions}

SpecValues == [model_number : {None, "CMK32"}, manufacturer : {None, "Corsair"},
               capacity : {None, "32GB"}, speed : {None, "5200MHz"},
               latency : {None, "CL40"}, color : {None, "RGB"}]

\* the Listing objects calculate_priority_score is applied to
ScoreListings ==
    [ad_id : {1}, title : {"DDR5 RAM", "DDR5 RAM defekt"},
     has_ovp : BOOLEAN, has_invoice : BOOLEAN, shipping_available : BOOLEAN,
     specs : SpecValues, raw_description : {""}, priority_score : {0}]

MaxBatch == 3

\* the parsed listings a scan cycle hands to send_listings
BatchListings ==
    {parse_listing(1, "DDR5 defekt", "").listing,
     parse_listing(2, "G.Skill DDR5 32GB 6000MHz CL36", "").listing,
     parse_listing(3, "DDR 5 RAM 16GB", "Abholung in Berlin").listing,
     parse_listing(4, "DDR5 RAM Corsair CMK32GX5M2B5200C40 NEU OVP",
                   "Rechnung vorhanden, Versand möglich").listing}

Batches ==
    {b \in SeqsUpTo(BatchListings, MaxBatch) :
        \A i, j \in 1..Len(b) : i # j => b[i].ad_id # b[j].ad_id}

NoMetadata ==
    [has_ovp |-> FALSE, has_invoice |-> FALSE, shipping_available |-> FALSE]

\* no call is pending
NoRequest == [op |-> "none"]

\* the calls a run can make, with their arguments; send_listing returns False
\* for the listings in `undelivered` (no chat accepted the message)
ParserRequests ==
    [op : {"parse_listing"}, ad_id : {1}, title : ParserTitles,
     description : ParserDescriptions]
    \cup [op : {"extract_metadata"}, t : ParserTexts]
    \cup [op : {"calculate_priority_score"}, l : ScoreListings]
    \cup [op : {"send_listings"}, list : Batches, max_count : 0..MaxBatch,
          undelivered : {{}, {1}, {1, 2, 3, 4}}]

\* ---- the calls
Call_parse_listing ==
    /\ request.op = "parse_listing"
    /\ last_call.op = "init"
    /\ \E r \in {parse_listing(request.ad_id, request.title,
                                request.description)} :
          /\ parsed' = r.listing
          /\ consulted' = r.calls
          /\ last_call' = Call("parse_listing", <<>>, r.listing # NoListing,
                               FALSE)
    /\ UNCHANGED <<request, metadata, sent>>
    /\ UNCHANGED <<module, now, seen_ads, searches, sqlite_sequence, listings>>
    /\ UNCHANGED <<botvars, pollvars, loopvars, filtervars, retrievalvars>>
    /\ UNCHANGED latervars

Call_extract_metadata ==
    /\ request.op = "extract_metadata"
    /\ last_call.op = "init"
    /\ metadata' = extract_metadata(request.t)
    /\ last_call' = Call("extract_metadata", <<>>, TRUE, FALSE)
    /\ UNCHANGED <<request, parsed, consulted, sent>>
    /\ UNCHANGED <<module, now, seen_ads, searches, sqlite_sequence, listings>>
    /\ UNCHANGED <<botvars, pollvars, loopvars, filtervars, retrievalvars>>
    /\ UNCHANGED latervars

Call_calculate_priority_score ==
    /\ request.op = "calculate_priority_score"
    /\ last_call.op = "init"
    /\ parsed' = [request.l EXCEPT
                     !.priority_score = calculate_priority_score(request.l)]
    /\ last_call' = Call("calculate_priority_score", <<>>, TRUE, FALSE)
    /\ UNCHANGED <<request, consulted, metadata, sent>>
    /\ UNCHANGED <<module, now, seen_ads, searches, sqlite_sequence, listings>>
    /\ UNCHANGED <<botvars, pollvars, loopvars, filtervars, retrievalvars>>
    /\ UNCHANGED latervars

Call_send_listings ==
    /\ request.op = "send_listings"
    /\ last_call.op = "init"
    /\ \E attempted \in {send_listings(request.list, request.max_count)} :
          /\ sent' = attempted
          /\ last_call' =
                 CallIds("send_listings",
                         <<Len(SelectSeq(attempted, LAMBDA l :
                                   l.ad_id \notin request.undelivered))>>,
                         TRUE, FALSE,
                         {attempted[i].ad_id : i \in 1..Len(attempted)})
    /\ UNCHANGED <<request, parsed, consulted, metadata>>
    /\ UNCHANGED <<module, now, seen_ads, searches, sqlite_sequence, listings>>
    /\ UNCHANGED <<botvars, pollvars, loopvars, filtervars, retrievalvars>>
    /\ UNCHANGED latervars

\* a run of the parser makes one call
InitParser ==
    /\ module = "parser"
    /\ InitStore
    /\ config = NoConfig
    /\ request \in ParserRequests

NextParser ==
    \/ Call_parse_listing
    \/ Call_extract_metadata
    \/ Call_calculate_priority_score
    \/ Call_send_listings

SpecParser == InitParser /\ [][NextParser]_vars

(***************************************************************************)
(* src/database.py : the retrieval and pruning calls.  A run makes one     *)
(* call on a store filled by mark_as_seen; time is counted in days.        *)
(***************************************************************************)
\* rows of a store filled during the last MaxTime days
MaxRows == 3

\* rows of a store that has been in use for a long time
MaxStored == 101

\* the limits and ages a caller passes
Limits == {0 - 1, 0, 1, 2, 100, 150}
Days == {0, 1, 30}

\* the seen_ads table of such a store: one row per day, the last one of
\* today
StoredBefore ==
    [i \in 1..MaxStored |->
        [ad_id |-> 100 + i, title |-> "a", price |-> NoPrice,
         fetched_at |-> i - MaxStored]]

\* the seen_ads tables mark_as_seen can have built: no ad_id twice, and the
\* rows in the order of their timestamps (a replaced row moves to the end)
RetrievalTables ==
    {t \in SeqsUpTo([ad_id : 1..MaxRows, title : {"a"}, price : {NoPrice},
                     fetched_at : 0..MaxTime], MaxRows) :
        \A i, j \in 1..Len(t) :
            i < j => t[i].ad_id # t[j].ad_id /\ t[i].fetched_at <= t[j].fetched_at}
    \cup {StoredBefore}

\* the dictionaries built from the rows: row["title"] or "" is the title (a
\* title is never NULL), fetched_at is not copied
AdDicts(rows) ==
    [i \in 1..Len(rows) |->
        [id |-> rows[i].ad_id, title |-> rows[i].title, price |-> rows[i].price]]

\* get_newest_ads(limit): ORDER BY fetched_at DESC LIMIT ?; [] on
\* sqlite3.Error.  Rows marked on the same day keep the reverse of their
\* insertion order, the order of their timestamps.
get_newest_ads(table, limit, err) ==
    IF err THEN <<>>
    ELSE At(OrderByFetchedAt(table), LAMBDA asc :
             SubSeq([i \in 1..Len(asc) |-> asc[Len(asc) + 1 - i]],
                    1, Min(Len(asc), Min(Max(1, limit), 100))))

Call_get_last_ads(limit, err) ==
    /\ module = "database"
    /\ last_call.op = "init"
    /\ returned' = AdDicts(get_last_ads(seen_ads, limit, err))
    /\ last_call' = Call("get_last_ads", <<limit, err>>, TRUE, FALSE)
    /\ UNCHANGED <<module, now, seen_ads, searches, sqlite_sequence, listings>>
    /\ UNCHANGED <<botvars, pollvars, loopvars, filtervars, parservars>>
    /\ UNCHANGED latervars
    /\ UNCHANGED deleted_count

Call_get_newest_ads(limit, err) ==
    /\ module = "database"
    /\ last_call.op = "init"
    /\ returned' = AdDicts(get_newest_ads(seen_ads, limit, err))
    /\ last_call' = Call("get_newest_ads", <<limit, err>>, TRUE, FALSE)
    /\ UNCHANGED <<module, now, seen_ads, searches, sqlite_sequence, listings>>
    /\ UNCHANGED <<botvars, pollvars, loopvars, filtervars, parservars>>
    /\ UNCHANGED latervars
    /\ UNCHANGED deleted_count

\* deleted_count = cursor.rowcount, the number of rows the DELETE removed;
\* 0 is returned on sqlite3.Error
Call_cleanup_old_entries(days, err) ==
    /\ module = "database"
    /\ last_call.op = "init"
    /\ seen_ads' = cleanup_old_entries(seen_ads, days, now, err)
    /\ deleted_count' = IF err THEN 0 ELSE Len(seen_ads) - Len(seen_ads')
    /\ last_call' = Call("cleanup_old_entries", <<days, err>>, TRUE, FALSE)
    /\ UNCHANGED <<module, now, searches, sqlite_sequence, listings>>
    /\ UNCHANGED <<botvars, pollvars, loopvars, filtervars, parservars>>
    /\ UNCHANGED latervars
    /\ UNCHANGED returned

\* no row is of a later day than today
InitRetrieval ==
    /\ module = "database"
    /\ seen_ads \in RetrievalTables
    /\ now \in 0..MaxTime
    /\ \A i \in 1..Len(seen_ads) : seen_ads[i].fetched_at <= now
    /\ InitOther
    /\ config = NoConfig
    /\ request = [op |-> "none"]

NextRetrieval ==
    \/ \E limit \in Limits, err \in BOOLEAN : Call_get_last_ads(limit, err)
    \/ \E limit \in Limits, err \in BOOLEAN : Call_get_newest_ads(limit, err)
    \/ \E days \in Days, err \in BOOLEAN : Call_cleanup_old_entries(days, err)

SpecRetrieval == InitRetrieval /\ [][NextRetrieval]_vars

(***************************************************************************)
(* Properties of the stores                                                *)
(***************************************************************************)
RowsOf(table, ad_id) == SelectSeq(table, LAMBDA r : r.ad_id = ad_id)

\* C4: fail-open existence probe.  Whenever the storage layer raises during
\* the existence check, is_new_ad / is_new_listing returns True, does not
\* raise, and leaves the store unchanged.
C4_FailOpenProbe ==
    [][(/\ last_call'.op \in {"is_new_ad", "is_new_listing"}
        /\ last_call'.args[2])
       => /\ last_call'.ret = TRUE
          /\ ~last_call'.raised
          /\ seen_ads' = seen_ads
          /\ listings' = listings]_vars

\* an ad that is in the store is reported new because the probe failed
C4_Witness ==
    /\ last_call.op = "is_new_ad"
    /\ last_call.args[2]
    /\ HasRow(seen_ads, last_call.args[1])
    /\ last_call.ret = TRUE

\* C5: idempotent marking.  After mark_as_seen / mark_as_seen_with_search
\* for an ad id there is exactly one entry for that id, it carries the
\* snapshot of the later call, the entry count is what it was after the
\* first call, and is_new_ad(id) is False; no id ever has two entries.
C5_IdempotentMarking ==
    /\ \A i, j \in 1..Len(seen_ads) :
          seen_ads[i].ad_id = seen_ads[j].ad_id => i = j
    /\ (/\ last_call.op \in {"mark_as_seen", "mark_as_seen_with_search"}
        /\ ~last_call.args[4])
       => LET id == last_call.args[1]
              rows == RowsOf(seen_ads, id)
              before == last_call.args[5]
              existed == last_call.args[6]
          IN /\ Len(rows) = 1
             /\ rows[1].title = last_call.args[2]
             /\ rows[1].price = last_call.args[3]
             /\ ~is_new_ad(seen_ads, id, FALSE)
             /\ ~old_is_new_ad(seen_ads, id, FALSE)
             /\ Len(seen_ads) = IF existed THEN before ELSE before + 1

\* an id is marked a second time while another id is in the store
C5_Witness ==
    /\ last_call.op \in {"mark_as_seen", "mark_as_seen_with_search"}
    /\ ~last_call.args[4]
    /\ last_call.args[6]
    /\ Len(seen_ads) = 2

\* C8: cascading delete.  After delete_search(search_id, owner) succeeds no
\* seen_ads row of that search and no search row of it remains, the rows of
\* every other search are untouched, and get_stats()["total"] has dropped
\* by exactly the number of seen_ads rows scoped to the deleted search.
C8_CascadingDelete ==
    [][\A search_id \in SearchIds, user_id \in Users :
          (/\ last_call'.op = "delete_search"
           /\ Call_delete_search(search_id, user_id, FALSE)
           /\ last_call'.ret = TRUE)
          => /\ ~HasSearch(searches', search_id)
             /\ \A r \in Range(seen_ads') : r.search_id # search_id
             /\ seen_ads' = SelectSeq(seen_ads, LAMBDA r : r.search_id # search_id)
             /\ searches' = SelectSeq(searches, LAMBDA r : r.search_id # search_id)
             /\ get_stats_total(seen_ads', FALSE)
                  = get_stats_total(seen_ads, FALSE)
                    - Count(seen_ads, LAMBDA r : r.search_id = search_id)
      ]_vars

\* a delete that removed rows and left another search and its rows behind
C8_Witness ==
    /\ last_call.op = "delete_search"
    /\ last_call.ret = TRUE
    /\ last_call.args[1] > Len(seen_ads)
    /\ Len(seen_ads) >= 1
    /\ Len(searches) >= 1
    /\ \A r \in Range(seen_ads) : HasSearch(searches, r.search_id)

\* C10: update_search allow-list.  A successful update_search changes only
\* fields that are named in its arguments and are one of keyword, price_min,
\* price_max, interval_seconds, shipping_preference, exclude_keywords, and
\* only in the search addressed; a call naming no such field returns False
\* and changes nothing.
C10_Mutable == {"keyword", "price_min", "price_max", "interval_seconds",
                "shipping_preference", "exclude_keywords"}

C10_UpdateAllowList ==
    [][\A search_id \in SearchIds, user_id \in Users,
          k \in 1..Len(KwargsSamples) :
          (/\ last_call'.op = "update_search"
           /\ Call_update_search(search_id, user_id, k, FALSE))
          => LET named == DOMAIN KwargsSamples[k] \cap C10_Mutable IN
             /\ Len(searches') = Len(searches)
             /\ \A i \in 1..Len(searches) : \A f \in DOMAIN searches[i] :
                   searches'[i][f] # searches[i][f]
                   => /\ last_call'.ret = TRUE
                      /\ searches[i].search_id = search_id
                      /\ f \in named
             /\ named = {} => (last_call'.ret = FALSE /\ searches' = searches)
             /\ seen_ads' = seen_ads
      ]_vars

\* the owner's update took price_max and ignored the user_id it also named
C10_Witness ==
    /\ last_call.op = "update_search"
    /\ last_call.ret = TRUE
    /\ last_call.args[1] = 2
    /\ \E r \in Range(searches) :
          r.user_id = "u1" /\ r.price_max = 20 /\ r.active
    /\ Len(searches) = 2

\* C2: scope isolation.  After search A has recorded ad X, _get_new_ads over
\* ads containing X for another search B, which has not recorded X, still
\* classifies X as new.
C2_ScopeIsolation ==
    [][\A ads \in SeqsUpTo(OldFeedAds, MaxFeedLen), b \in SearchIds :
          (/\ last_call'.op = "_get_new_ads"
           /\ Call_old_get_new_ads(ads, b, FALSE))
          => \A x \in Ids(ads) \ {EmptyId} :
                (/\ HasSearch(searches, b)
                 /\ \E r \in Range(seen_ads) :
                       /\ r.ad_id = x
                       /\ r.search_id # b
                       /\ HasSearch(searches, r.search_id)
                 /\ ~\E r \in Range(seen_ads) :
                       r.ad_id = x /\ r.search_id = b)
                => x \in last_call'.ids
      ]_vars

\* C9: ownership-checked mutation.  pause_search, resume_search,
\* delete_search and update_search called by a user who does not own the
\* search (or for a search that does not exist) return False, do not raise,
\* and leave the searches table and the seen_ads table unchanged.
C9_OwnershipChecked ==
    [][\A search_id \in SearchIds, user_id \in Users :
          (/\ ~IsOwner(searches, search_id, user_id)
           /\ \/ /\ last_call'.op = "pause_search"
                 /\ Call_pause_search(search_id, user_id, FALSE)
              \/ /\ last_call'.op = "resume_search"
                 /\ Call_resume_search(search_id, user_id, FALSE)
              \/ /\ last_call'.op = "delete_search"
                 /\ Call_delete_search(search_id, user_id, FALSE)
              \/ /\ last_call'.op = "update_search"
                 /\ \E k \in 1..Len(KwargsSamples) :
                       Call_update_search(search_id, user_id, k, FALSE))
          => /\ last_call'.ret = FALSE
             /\ ~last_call'.raised
             /\ searches' = searches
             /\ seen_ads' = seen_ads
      ]_vars

(***************************************************************************)
(* Properties of the poll cycle of src/main.py                             *)
(***************************************************************************)
FeedIds == Ids(filtered_ads) \ {EmptyId}

\* C1: dedup across poll cycles.  With no storage error and no pruning so
\* far, a batch returned by _get_new_ads holds no id an earlier batch held
\* and no id twice; it holds exactly the distinct non-empty filtered ids the
\* store did not hold when the cycle began (all N of them when it held
\* none), and nothing when the previous cycle's feed had the same ids.
C1_DedupAcrossCycles ==
    (hist.clean /\ pc = "got")
    => /\ Ids(new_ads) \cap hist.was_new = {}
       /\ \A i, j \in 1..Len(new_ads) : new_ads[i].id = new_ads[j].id => i = j
       /\ Ids(new_ads) = FeedIds \ hist.stored0
       /\ hist.stored0 = {} => Len(new_ads) = Cardinality(FeedIds)
       /\ FeedIds \subseteq hist.prev_ids => new_ads = <<>>

\* the second of two cycles over the same two ads finds nothing new
C1_Witness ==
    /\ pc = "got"
    /\ hist.clean
    /\ hist.cycles = 2
    /\ FeedIds = {1, 2}
    /\ hist.prev_ids = {1, 2}
    /\ hist.was_new = {1, 2}
    /\ new_ads = <<>>

\* the write of every ad classified new is called right after its check,
\* before the loop goes on and before the notifier is called
C3_WriteBeforeNotify ==
    /\ pc \in {"dedup", "got"} => Ids(new_ads) \subseteq hist.written
    /\ pc = "mark"
          => Ids(SubSeq(new_ads, 1, Len(new_ads) - 1)) \subseteq hist.written
    /\ pc = "notify" => Ids(queue) \subseteq hist.written
    /\ last_call.op = "_send_ad_to_chat" => last_call.args[1] \in hist.written

\* a crash between marking and notifying leaves the ads seen, and no later
\* cycle hands one of them to the notifier
C3_MissedNotDuplicated ==
    /\ last_call.op = "crash" => last_call.ids \subseteq SeenIds(seen_ads)
    /\ last_call.op = "send_telegram" => last_call.ids \cap hist.missed = {}

C6_AsStated ==
    pc = "got" => \A x \in hist.failed \cap FeedIds : x \in Ids(new_ads)

\* C6, amended: a delivery failure leaves the ad marked as seen; with no
\* storage error and no pruning, no later cycle classifies it as new.
C6_FailedDeliveryStaysSeen ==
    hist.clean => /\ hist.failed \subseteq SeenIds(seen_ads)
                  /\ pc = "got" => hist.failed \cap Ids(new_ads) = {}

\* the cycle after a failed delivery, over a feed with that ad, has found
\* nothing new
C6_Witness ==
    /\ hist.clean
    /\ pc = "got"
    /\ hist.failed # {}
    /\ hist.failed \subseteq FeedIds
    /\ new_ads = <<>>

\* C7: seen-set write failures do not block delivery.  A failing
\* mark_as_seen does not raise, the ad stays in new_ads and the loop goes
\* on; every ad whose write was called is in the batch, and the whole batch,
\* reversed, is what send_telegram is called with in the same cycle.
C7_WriteFailureDoesNotBlock ==
    [][/\ (/\ pc = "mark"
           /\ last_call'.op = "mark_as_seen"
           /\ last_call'.args[4])
          => /\ ~last_call'.raised
             /\ seen_ads' = seen_ads
             /\ new_ads' = new_ads
             /\ pc' \in {"dedup", "got"}
             /\ last_call'.args[1] \in Ids(new_ads')
       /\ pc \in {"dedup", "got"} => hist.written \subseteq Ids(new_ads)
       /\ (pc = "got" /\ last_call'.op = "send_telegram")
          => /\ queue' = Reverse(new_ads)
             /\ last_call'.ids = Ids(new_ads)
             /\ new_ads # <<>> => pc' = "notify"
      ]_vars

\* send_telegram has just been called with an ad that is not in the store
C7_Witness ==
    /\ last_call.op = "send_telegram"
    /\ pc = "notify"
    /\ \E x \in Ids(queue) : x \notin SeenIds(seen_ads)

(***************************************************************************)
(* Properties of the poll loop of the multi-search bot                     *)
(***************************************************************************)
\* the row of a search in the store
RowOf(table, search_id) ==
    CHOOSE r \in Range(table) : r.search_id = search_id

\* C11: every time _execute_search has run for a search that is in the store,
\* the last_check of the search is the time of that cycle attempt, whether
\* the cycle found new ads, fetched no ad at all or failed (the update itself
\* not failing in the store).
C11_LastCheckAlwaysAdvances ==
    [][(/\ last_call'.op = "_execute_search"
        /\ ~last_call'.args[3]
        /\ HasSearch(searches', last_call'.args[1]))
       => RowOf(searches', last_call'.args[1]).last_check = now']_vars

\* the interval of a row has elapsed at time t, or the row has no last_check
C12_Due(row, t) ==
    \/ row.last_check = NoTime
    \/ t * TickSeconds >= row.last_check * TickSeconds + row.interval_seconds

\* C12: when a pass of the poll loop comes to a search that is active in the
\* store, it executes the search if and only if the last_check of the search
\* is unset or now - last_check >= interval_seconds; and no execution of a
\* search whose last_check is t starts before t + interval_seconds.
C12_IntervalGating ==
    [][(/\ last_call'.op = "_should_run_search"
        /\ HasSearch(searches, last_call'.args[1]))
       => LET row == RowOf(searches, last_call'.args[1]) IN
          /\ row.active => (last_call'.ret <=> C12_Due(row, now))
          /\ (last_call'.ret /\ row.last_check # NoTime) =>
                now * TickSeconds
                    >= row.last_check * TickSeconds + row.interval_seconds
          /\ pc' = IF last_call'.ret THEN "exec" ELSE "for"]_vars

\* a search that was executed before is executed again, exactly one interval
\* after its last_check
C12_Witness ==
    /\ last_call.op = "_should_run_search"
    /\ last_call.ret
    /\ pc = "exec"
    /\ HasSearch(searches, last_call.args[1])
    /\ LET row == RowOf(searches, last_call.args[1]) IN
       /\ row.active
       /\ row.last_check # NoTime
       /\ now * TickSeconds = row.last_check * TickSeconds + row.interval_seconds

\* a search that was executed less than one interval ago is passed over
C12_Skipped ==
    /\ last_call.op = "_should_run_search"
    /\ ~last_call.ret
    /\ HasSearch(searches, last_call.args[1])
    /\ RowOf(searches, last_call.args[1]).active

\* a cycle of the current pass has raised
C13_RaisedInPass ==
    \E i \in 1..Len(pass_log) : pass_log[i].outcome = "raised"

\* C13: an exception raised while a search is executed is caught inside the
\* cycle of that search: the run loop goes on to the next search of the same
\* pass, every later search of the pass that is due is still executed while
\* the running flag is set, and the loop is left only when the flag has been
\* cleared.
C13_FailureIsolation ==
    [][/\ (last_call'.op = "_execute_search" /\ last_call'.raised) =>
             /\ pc' = "for"
             /\ idx' = idx + 1
             /\ active_searches' = active_searches
             /\ running' = running
       /\ (/\ last_call'.op = "for"
           /\ C13_RaisedInPass
           /\ running
           /\ idx <= Len(active_searches)) => pc' = "due"
       /\ (/\ last_call'.op = "_should_run_search"
           /\ C13_RaisedInPass
           /\ C12_Due(active_searches[idx], now)) => pc' = "exec"
       /\ pc' = "exited" => ~running]_vars

\* after a cycle that raised, a later search of the same pass was executed
\* to its end
C13_Witness ==
    \E i, j \in 1..Len(pass_log) :
        /\ i < j
        /\ pass_log[i].outcome = "raised"
        /\ pass_log[j].outcome = "done"

(***************************************************************************)
(* Properties of the shutdown of both bots                                 *)
(***************************************************************************)
\* a cycle of the single-search bot is in progress
C14_InCycle == pc \in {"dedup", "mark", "got", "notify", "cleanup"}

\* the statement as the claim words it: with the flag cleared no step starts
\* a search cycle
C14_AsStated ==
    [][~running =>
          /\ ~(last_call'.op = "_should_run_search" /\ pc' = "exec")
          /\ last_call'.op # "fetch_ads"]_vars

\* C14: once the signal handler has cleared the running flag, every test of
\* the flag by a run loop ends the pass, the loop or the wait, so no cycle is
\* started but the one whose test came before the signal; a cycle that is in
\* progress runs to its end; the run loop exits in the end; the wait of the
\* single-search bot is left at its next test, after at most one sleep(1).
C14_CooperativeShutdown ==
    /\ [][~running =>
             /\ pc = "for" => pc' \in {"for", "sleep"}
             /\ pc = "while" => pc' \in {"while", "exited"}
             /\ loop = "while" => loop' \in {"while", "exited"}
             /\ loop = "ran" => loop' \in {"ran", "exited"}
             /\ loop = "wait" => loop' \in {"wait", "while"}]_vars
    /\ [][/\ pc = "exec" => (pc' = "exec" \/ last_call'.op = "_execute_search")
          /\ C14_InCycle => (pc' # "off" /\ loop' = "ran")]_vars
    /\ (pc = "exec") ~> (last_call.op = "_execute_search")
    /\ C14_InCycle ~> (pc = "idle" /\ loop = "ran")
    /\ (~running) ~> (pc = "exited" \/ loop = "exited")

\* a cycle of the multi-search bot has run to its end with the flag cleared
C14_Witness ==
    /\ ~running
    /\ last_call.op = "_execute_search"
    /\ pc = "for"

\* C15: the poll loop never starts executing a search that is inactive in
\* the store at the moment its execution starts, also when the search was
\* paused while an earlier search of the same pass was being executed.
C15_InactiveNeverStarted ==
    [][(/\ last_call'.op = "_should_run_search"
        /\ pc' = "exec"
        /\ pass_log # <<>>
        /\ HasSearch(searches, last_call'.args[1]))
       => RowOf(searches, last_call'.args[1]).active]_vars

\* pausing keeps every search row and every seen_ads row, and a search that
\* was resumed is in the next list get_active_searches returns
C15_PauseRetains ==
    [][/\ last_call'.op = "pause_search" =>
             /\ seen_ads' = seen_ads
             /\ Len(searches') = Len(searches)
             /\ \A i \in 1..Len(searches) :
                   searches'[i] = [searches[i] EXCEPT !.active = searches'[i].active]
       /\ (last_call'.op = "resume_search" /\ last_call'.ret) =>
             Len(get_active_searches(searches', FALSE))
                > Len(get_active_searches(searches, FALSE))
                \/ searches' = searches]_vars

(***************************************************************************)
(* Properties of _filter_ads                                               *)
(***************************************************************************)
\* the ad is in the list the filter returned
Kept(ad) == ad \in Range(filtered_ads)

\* the shipping hint of the ad matches the preference of the search
ShippingOk(ad, cfg) ==
    \/ cfg.shipping_preference = "both"
    \/ /\ cfg.shipping_preference = "pickup"
       /\ Contains(<<"Abholung">>, ad.shipping_type)
    \/ /\ cfg.shipping_preference = "shipping"
       /\ Contains(<<"Versand">>, ad.shipping_type)

\* some excluded keyword is a case-insensitive substring of the title
TitleExcludedBy(ad, cfg) ==
    \E k \in 1..Len(cfg.exclude_keywords) :
        Contains(Lower(cfg.exclude_keywords[k]), Lower(ad.title))

\* the ad passes every filter but the price bounds
OtherOk(ad, cfg) ==
    /\ ~ad.is_gesuch
    /\ ~TitleExcludedBy(ad, cfg)
    /\ ShippingOk(ad, cfg)

\* C16: of the ads that pass all other filters, _filter_ads keeps the ad
\* whose price is price_min and the ad whose price is price_max (the other
\* bound permitting) and drops the ad one cent below price_min and the ad
\* one cent above price_max.
C16_InclusiveBounds ==
    \A i \in 1..Len(fetched) :
        LET ad == fetched[i] IN
        (OtherOk(ad, config) /\ ad.price # NoPrice) =>
            /\ (/\ config.price_min # NoPrice
                /\ ad.price = config.price_min
                /\ config.price_max = NoPrice \/ ad.price <= config.price_max)
               => Kept(ad)
            /\ (/\ config.price_max # NoPrice
                /\ ad.price = config.price_max
                /\ config.price_min = NoPrice \/ ad.price >= config.price_min)
               => Kept(ad)
            /\ (config.price_min # NoPrice /\ ad.price = config.price_min - 1)
               => ~Kept(ad)
            /\ (config.price_max # NoPrice /\ ad.price = config.price_max + 1)
               => ~Kept(ad)

\* with both bounds set, an ad priced exactly at price_max was kept
C16_Witness ==
    /\ last_call.op = "_filter_ads"
    /\ config.price_min = 10
    /\ config.price_max = 20
    /\ \E i \in 1..Len(fetched) : fetched[i].price = 20 /\ Kept(fetched[i])

\* C17: an ad without a price is never excluded by the price bounds, whatever
\* they are: it is kept exactly when it is no wanted ad, no excluded keyword
\* is in its title and its shipping hint matches the preference.
C17_PricelessBypass ==
    \A i \in 1..Len(fetched) :
        fetched[i].price = NoPrice =>
            (Kept(fetched[i]) <=> OtherOk(fetched[i], config))

\* an ad without a price was kept although both bounds are set
C17_Witness ==
    /\ last_call.op = "_filter_ads"
    /\ config.price_min # NoPrice
    /\ config.price_max # NoPrice
    /\ \E i \in 1..Len(fetched) : fetched[i].price = NoPrice /\ Kept(fetched[i])

\* both bounds are set and price_min > price_max
Inverted(cfg) ==
    /\ cfg.price_min # NoPrice
    /\ cfg.price_max # NoPrice
    /\ cfg.price_min > cfg.price_max

\* the statement as the claim words it: under an inverted range the filter
\* returns the empty list for every input
C18_AsStated == Inverted(config) => filtered_ads = <<>>

\* C18: under an inverted price range (price_min > price_max) _filter_ads
\* returns no ad that has a price; an ad without a price is still kept when
\* it passes the other conditions.
C18_InvertedRange ==
    Inverted(config) =>
        \A i \in 1..Len(fetched) :
            Kept(fetched[i]) <=>
                (fetched[i].price = NoPrice /\ OtherOk(fetched[i], config))

\* under an inverted range a priced offer that passes every other condition
\* was dropped
C18_Witness ==
    /\ last_call.op = "_filter_ads"
    /\ Inverted(config)
    /\ \E i \in 1..Len(fetched) :
          /\ fetched[i].price # NoPrice
          /\ OtherOk(fetched[i], config)
          /\ ~Kept(fetched[i])

\* C19: every wanted ad (is_gesuch) is dropped by _filter_ads whatever the
\* other settings are, also when there are no price bounds, no excluded
\* keywords and the shipping preference is "both"; hence no wanted ad is
\* passed to the dedup, marked as seen or notified.
C19_RequestExclusion ==
    /\ \A i \in 1..Len(fetched) : fetched[i].is_gesuch => ~Kept(fetched[i])
    /\ \A i \in 1..Len(filtered_ads) : ~filtered_ads[i].is_gesuch
    /\ \A i \in 1..Len(new_ads) : ~new_ads[i].is_gesuch
    /\ \A ad \in FilterAds :
          ad.is_gesuch => /\ ad.id \notin SeenIds(seen_ads)
                          /\ ad.id \notin last_call.ids

\* with nothing configured, a list with a wanted ad and an offer went through
\* the filter and the dedup, and the offer was notified
C19_Witness ==
    /\ last_call.op = "send_telegram"
    /\ config = NoConfig
    /\ \E i \in 1..Len(fetched) : fetched[i].is_gesuch
    /\ new_ads # <<>>

\* the condition of the claim for keeping an ad
C20_Keeps(ad, cfg) ==
    /\ \/ ad.price = NoPrice
       \/ /\ cfg.price_min = NoPrice \/ ad.price >= cfg.price_min
          /\ cfg.price_max = NoPrice \/ ad.price <= cfg.price_max
    /\ ~ad.is_gesuch
    /\ ~TitleExcludedBy(ad, cfg)
    /\ ShippingOk(ad, cfg)

\* C20: the _filter_ads of the multi-search bot returns the ads of its input
\* that satisfy the condition above, in the order of the input, and writes
\* nothing to the store.
C20_FilterAsAWhole ==
    [][(last_call'.op = "_filter_ads" /\ module = "old_bot_filter") =>
          /\ filtered_ads' =
                SelectSeq(fetched', LAMBDA ad : C20_Keeps(ad, config))
          /\ seen_ads' = seen_ads
          /\ searches' = searches
          /\ listings' = listings
          /\ sqlite_sequence' = sqlite_sequence]_vars

\* with ads already in the store, a search that wants pickup kept one ad of
\* a list of two
C20_Witness ==
    /\ module = "old_bot_filter"
    /\ last_call.op = "_filter_ads"
    /\ seen_ads # <<>>
    /\ config.shipping_preference = "pickup"
    /\ Len(fetched) = 2
    /\ Len(filtered_ads) = 1

(***************************************************************************)
(* Properties of the attribute parser                                      *)
(***************************************************************************)

\* C21: whenever parse_listing returns a listing with a model number, the
\* manufacturer is the one of the MODEL_PATTERNS table under which a pattern
\* matching that model number is listed (the first manufacturer of the
\* table with a matching pattern), whatever manufacturer keywords the text
\* contains; and extract_manufacturer is called only when no pattern of the
\* table matches the text.
C21_TierPrecedence ==
    (last_call.op = "parse_listing" /\ parsed # NoListing) =>
        At(str_upper(str_strip(request.title \o " " \o request.description)),
           LAMBDA text_upper :
        At({m \in 1..Len(MODEL_PATTERNS) :
                \E k \in 1..Len(MODEL_PATTERNS[m].patterns) :
                    re_search(MODEL_PATTERNS[m].patterns[k], text_upper)
                        # NoMatch},
           LAMBDA matching :
               /\ Truthy(parsed.specs.model_number) =>
                     /\ matching # {}
                     /\ parsed.specs.manufacturer =
                            MODEL_PATTERNS[MinOf(matching)].manufacturer
                     /\ \E k \in 1..Len(MODEL_PATTERNS[MinOf(matching)].patterns) :
                            parsed.specs.model_number =
                                group0(text_upper,
                                       re_search(MODEL_PATTERNS[MinOf(matching)]
                                                     .patterns[k],
                                                 text_upper))
               /\ "extract_manufacturer" \in consulted => matching = {}
               /\ matching # {} => Truthy(parsed.specs.model_number)))

\* a listing whose text holds a Crucial model number and the keyword of
\* another manufacturer was parsed, and its manufacturer is Crucial
C21_Witness ==
    /\ last_call.op = "parse_listing"
    /\ parsed # NoListing
    /\ Truthy(parsed.specs.model_number)
    /\ parsed.specs.manufacturer = "Crucial"
    /\ extract_manufacturer(request.title \o " " \o request.description)
           = "Corsair"
    /\ "extract_manufacturer" \notin consulted

\* C22: the score calculate_priority_score gives a listing is max(0, S), S
\* being 5 for a model number, 3 for the original packaging, 3 for an
\* invoice, 2 for shipping, 2 for manufacturer, capacity, speed and latency
\* all set, 1 for a colour, minus 2 for a defect keyword in the title or the
\* description; it lies in 0..16, also on the listings parse_listing returns,
\* and is 0 for a listing with nothing but the defect penalty.
C22_ScoreTableAndClamp ==
    /\ last_call.op = "calculate_priority_score" =>
          LET l == request.l
              b(signal) == IF signal THEN 1 ELSE 0
              defect == \E k \in {"defekt", "kaputt", "beschädigt", "schaden"} :
                            Contains(k, str_lower(l.title \o " "
                                                  \o l.raw_description))
              S == 5 * b(l.specs.model_number \notin {None, ""})
                   + 3 * b(l.has_ovp) + 3 * b(l.has_invoice)
                   + 2 * b(l.shipping_available)
                   + 2 * b(\A f \in {"manufacturer", "capacity", "speed",
                                     "latency"} : l.specs[f] \notin {None, ""})
                   + 1 * b(l.specs.color \notin {None, ""})
                   - 2 * b(defect)
          IN /\ parsed.priority_score = (IF S < 0 THEN 0 ELSE S)
             /\ parsed.priority_score \in 0..16
             /\ (S = 0 - 2) => parsed.priority_score = 0
             /\ parsed = [l EXCEPT !.priority_score = parsed.priority_score]
    /\ (last_call.op = "parse_listing" /\ parsed # NoListing) =>
          parsed.priority_score \in 0..16

\* a listing with a defect keyword and no positive signal was scored 0
C22_Witness ==
    /\ last_call.op = "calculate_priority_score"
    /\ Contains("defekt", str_lower(request.l.title))
    /\ ~request.l.has_ovp /\ ~request.l.has_invoice
    /\ ~request.l.shipping_available
    /\ \A f \in DOMAIN request.l.specs : request.l.specs[f] = None
    /\ parsed.priority_score = 0

\* C23: send_listings hands min(len(listings), max_count) listings to
\* send_listing, each a listing of its input and none twice, in
\* non-increasing order of priority_score; no listing left out has a higher
\* score than an attempted one, and with len(listings) <= max_count none is
\* left out, whatever its score.
C23_OrderingAndTruncation ==
    last_call.op = "send_listings" =>
        LET given == request.list
            attempted == {sent[i].ad_id : i \in 1..Len(sent)}
            left_out == {i \in 1..Len(given) : given[i].ad_id \notin attempted}
        IN /\ Len(sent) = Min(Len(given), request.max_count)
           /\ \A i \in 1..Len(sent) : \E j \in 1..Len(given) : sent[i] = given[j]
           /\ \A i, j \in 1..Len(sent) : i # j => sent[i].ad_id # sent[j].ad_id
           /\ \A i, j \in 1..Len(sent) :
                 i < j => sent[i].priority_score >= sent[j].priority_score
           /\ \A i \in 1..Len(sent) : \A j \in left_out :
                 sent[i].priority_score >= given[j].priority_score
           /\ Len(given) <= request.max_count => left_out = {}

\* of three listings given lowest score first, two were attempted, the one
\* with the highest score first; and a listing with score 0 was attempted
C23_Witness ==
    /\ last_call.op = "send_listings"
    /\ Len(request.list) = 3
    /\ request.max_count = 2
    /\ request.list[1].priority_score < request.list[3].priority_score
    /\ Len(sent) = 2
    /\ sent[1] = request.list[3]
    /\ sent[2].priority_score = 0

\* C28: extract_metadata sets shipping_available exactly when the
\* lowercased text contains a positive shipping keyword and none of 'nur
\* abholung', 'kein versand', 'abholung nur'; has_ovp and has_invoice say
\* whether a packaging keyword, an invoice keyword, is in the text, whatever
\* the shipping keywords; parse_listing copies the three flags into the
\* listing.
C28_ShippingAvailableRule ==
    LET has(keywords, t) == \E k \in keywords : Contains(k, str_lower(t))
        positive(t) == has({"versand möglich", "versandkosten", "dhl",
                            "porto", "versand"}, t)
        negative(t) == has({"nur abholung", "kein versand", "abholung nur"}, t)
        ovp(t) == has({"ovp", "originalverpackung", "original verpackt",
                       "versiegelt", "unverschweißt"}, t)
        invoice(t) == has({"rechnung", "kassenbon", "beleg", "garantie",
                           "kaufbeleg"}, t)
        rule(flags, t) ==
            /\ flags.shipping_available <=> (positive(t) /\ ~negative(t))
            /\ negative(t) => ~flags.shipping_available
            /\ flags.has_ovp <=> ovp(t)
            /\ flags.has_invoice <=> invoice(t)
    IN /\ last_call.op = "extract_metadata" => rule(metadata, request.t)
       /\ (last_call.op = "parse_listing" /\ parsed # NoListing) =>
             rule(parsed, request.title \o " " \o request.description)

\* a text that mentions shipping costs, pickup only and the original
\* packaging: shipping is not available, the packaging flag is set
C28_Witness ==
    /\ last_call.op = "extract_metadata"
    /\ Contains("versandkosten", str_lower(request.t))
    /\ Contains("abholung nur", str_lower(request.t))
    /\ Contains("ovp", str_lower(request.t))
    /\ ~metadata.shipping_available
    /\ metadata.has_ovp

(***************************************************************************)
(* Properties of the retrieval and pruning calls                           *)
(***************************************************************************)
\* the time at which the row of an ad was written
C24_FetchedAt(id) ==
    seen_ads[CHOOSE i \in 1..Len(seen_ads) : seen_ads[i].ad_id = id].fetched_at

\* the rows a call left out
C24_LeftOut ==
    {i \in 1..Len(seen_ads) :
        \A k \in 1..Len(returned) : returned[k].id # seen_ads[i].ad_id}

\* what get_last_ads and get_newest_ads have in common: at most
\* min(max(1, limit), 100) entries, as many as the table allows, each of
\* them built from a row of the table, and none on a storage error; and
\* get_newest_ads returns the most recently written rows, newest first.
C24_BoundAndNewest ==
    (last_call.op \in {"get_last_ads", "get_newest_ads"}) =>
        LET limit == last_call.args[1]
            err == last_call.args[2]
            bound == Min(Max(1, limit), 100)
        IN /\ Len(returned) <= bound
           /\ err => returned = <<>>
           /\ ~err => Len(returned) = Min(Len(seen_ads), bound)
           /\ \A k \in 1..Len(returned) : HasRow(seen_ads, returned[k].id)
           /\ last_call.op = "get_newest_ads" =>
                 /\ \A k, l \in 1..Len(returned) :
                       k < l => C24_FetchedAt(returned[k].id)
                                    >= C24_FetchedAt(returned[l].id)
                 /\ \A k \in 1..Len(returned) : \A i \in C24_LeftOut :
                       C24_FetchedAt(returned[k].id) >= seen_ads[i].fetched_at

\* C24: get_last_ads and get_newest_ads return at most min(max(1, limit),
\* 100) entries and an empty list on a storage error; get_newest_ads returns
\* the most recently written entries, newest first, and get_last_ads returns
\* the most recently written entries, oldest first: no entry left out is
\* newer than a returned one.
C24_BoundedRetrieval ==
    /\ C24_BoundAndNewest
    /\ (last_call.op = "get_last_ads") =>
          /\ \A k, l \in 1..Len(returned) :
                k < l => C24_FetchedAt(returned[k].id)
                             <= C24_FetchedAt(returned[l].id)
          /\ last_call.args[2] \/
             \A k \in 1..Len(returned) : \A i \in C24_LeftOut :
                C24_FetchedAt(returned[k].id) >= seen_ads[i].fetched_at

\* C25: cleanup_old_entries(days) deletes exactly the rows of seen_ads whose
\* fetched_at is before now - days, keeps every other row as it was, in
\* place, and returns the number of rows it deleted; on a storage error it
\* returns 0 and the table is as before.
C25_AgeBasedPruning ==
    [][(last_call'.op = "cleanup_old_entries" /\ module = "database") =>
          LET days == last_call'.args[1]
              err == last_call'.args[2]
              old == {i \in 1..Len(seen_ads) :
                         seen_ads[i].fetched_at < now - days}
          IN IF err
             THEN seen_ads' = seen_ads /\ deleted_count' = 0
             ELSE /\ \A i \in old : ~HasRow(seen_ads', seen_ads[i].ad_id)
                  /\ \A i \in 1..Len(seen_ads) :
                        i \notin old =>
                            \E k \in 1..Len(seen_ads') : seen_ads'[k] = seen_ads[i]
                  /\ Len(seen_ads') = Len(seen_ads) - Cardinality(old)
                  /\ deleted_count' = Cardinality(old)]_vars

\* a call deleted rows and kept a row written exactly `days` days ago
C25_Witness ==
    /\ last_call.op = "cleanup_old_entries"
    /\ module = "database"
    /\ ~last_call.args[2]
    /\ deleted_count > 0
    /\ \E i \in 1..Len(seen_ads) :
          seen_ads[i].fetched_at = now - last_call.args[1]

(***************************************************************************)
(* src/scraper.py : _parse_ad_element and fetch_ads.  An ad element of the *)
(* result page is the record of what the selectors of _parse_ad_element    *)
(* find in it: the attribute data-href, the first h2 with the <a> inside   *)
(* it, the first <a class="ellipsis"> outside an h2, the location and time *)
(* elements, the price and the shipping text.  `raises` says where reading *)
(* the element raises an exception: nowhere, in the body of the function's *)
(* try block, in its shipping block or in its image block.                 *)
(***************************************************************************)
BASE_URL == "https://www.kleinanzeigen.de"

\* a tag the selectors do not find; a tag with its text and the href of its
\* <a> (None: it has none)
NoTag == [found |-> FALSE, text |-> "", href |-> None]

Tag(text, href) == [found |-> TRUE, text |-> text, href |-> href]

\* urllib.parse.urljoin on a base without a path
urljoin(base, url) ==
    IF url = "" THEN base
    ELSE IF SubSeq(url, 1, 4) = "http" THEN url
    ELSE IF CharAt(url, 1) = "/" THEN base \o url
    ELSE base \o "/" \o url

\* what _parse_ad_element returns instead of a record
NoAd == [none |-> TRUE]

AD_ID_PATTERNS ==
    << << Exact("/s-anzeige/") \o Rep("notslash", 1, Unbounded)
              \o Exact("/") \o D >>,
       << Exact("/s-anzeige/") \o D >> >>

\* _extract_ad_id: group(1) of the first of the two patterns that matches
extract_ad_id(link) ==
    At(re_search(AD_ID_PATTERNS[1], link), LAMBDA match :
       IF match # NoMatch THEN TrailingDigits(group0(link, match))
       ELSE At(re_search(AD_ID_PATTERNS[2], link), LAMBDA fallback :
               IF fallback # NoMatch
               THEN TrailingDigits(group0(link, fallback))
               ELSE None))

\* ad_element.find("a", href=re.compile(r'/s-anzeige/')): the first <a> in
\* document order whose href the pattern is found in
find_a_href(ad_element) ==
    At(SelectSeq(<<ad_element.h2, ad_element.a>>,
                 LAMBDA tag : /\ tag.found
                              /\ tag.href # None
                              /\ Contains("/s-anzeige/", tag.href)),
       LAMBDA hits : IF hits = <<>> THEN NoTag ELSE hits[1])

\* h2.ellipsis or h2 or a.ellipsis
find_title_elem(ad_element) ==
    IF ad_element.h2.found THEN ad_element.h2 ELSE ad_element.a

\* methods 1 to 3 of _parse_ad_element: link and link_elem
find_link(ad_element) ==
    IF Truthy(ad_element.data_href)
    THEN [link |-> urljoin(BASE_URL, ad_element.data_href),
          link_elem |-> NoTag]
    ELSE IF find_a_href(ad_element).found
    THEN [link |-> urljoin(BASE_URL, find_a_href(ad_element).href),
          link_elem |-> find_a_href(ad_element)]
    ELSE At(find_title_elem(ad_element), LAMBDA title_elem :
            IF title_elem.found /\ title_elem.href # None
            THEN [link |-> IF Truthy(title_elem.href)
                           THEN urljoin(BASE_URL, title_elem.href)
                           ELSE None,
                  link_elem |-> title_elem]
            ELSE [link |-> None, link_elem |-> NoTag])

\* the title without the placeholder
title_of_unset(ad_element, link_elem) ==
    IF link_elem.found THEN str_strip(link_elem.text)
    ELSE IF find_title_elem(ad_element).found
    THEN str_strip(find_title_elem(ad_element).text)
    ELSE ""

\* the title: the text of link_elem, else of the title element; the
\* placeholder when that is empty
title_of(ad_element, link_elem) ==
    At(IF link_elem.found THEN str_strip(link_elem.text)
       ELSE IF find_title_elem(ad_element).found
       THEN str_strip(find_title_elem(ad_element).text)
       ELSE "",
       LAMBDA title : IF title = "" THEN "Kein Titel" ELSE title)

\* the shipping block: "Versand" and "Abholung" as found in the text, else
\* the text; "" from its except clause
shipping_type_of(ad_element) ==
    IF ad_element.raises = "shipping" THEN ""
    ELSE At(ad_element.shipping_text, LAMBDA shipping_text :
        IF shipping_text = "" THEN ""
        ELSE IF Contains("Versand", shipping_text)
                    /\ Contains("Abholung", shipping_text)
        THEN "Versand / Abholung"
        ELSE IF Contains("Versand", shipping_text) THEN "Versand"
        ELSE IF Contains("Abholung", shipping_text) THEN "Abholung"
        ELSE shipping_text)

\* the image block: at most 3 image urls; [] from its except clause
images_of(ad_element) ==
    IF ad_element.raises = "images" THEN <<>>
    ELSE SubSeq(ad_element.images, 1, Min(3, Len(ad_element.images)))

GESUCH_INDICATORS == <<"suche", "gesuch", "sucht", "wanted">>

\* _parse_ad_element: None without a link, without an id and from the
\* except clause of the function; else the record
parse_ad_element(ad_element) ==
    IF ad_element.raises = "body" THEN NoAd
    ELSE At(find_link(ad_element), LAMBDA found :
        IF ~Truthy(found.link) THEN NoAd
        ELSE At(extract_ad_id(found.link), LAMBDA ad_id :
            IF ~Truthy(ad_id) THEN NoAd
            ELSE At(title_of(ad_element, found.link_elem), LAMBDA title :
                [id |-> ad_id,
                 title |-> title,
                 price |-> ad_element.price,
                 location |-> IF ad_element.location = None THEN ""
                              ELSE str_strip(ad_element.location),
                 link |-> found.link,
                 posted_time |-> IF ad_element.posted_time = None THEN ""
                                 ELSE str_strip(ad_element.posted_time),
                 shipping_type |-> shipping_type_of(ad_element),
                 images |-> images_of(ad_element),
                 is_gesuch |-> AnyIn(GESUCH_INDICATORS, str_lower(title))])))

\* ---- the ad elements of a result page
DataHrefs == {"", "/s-anzeige/ram-kit/123-225-1", "/s-immobilien/42"}

H2Tags == {NoTag, Tag("RAM 32GB", None), Tag("", "/s-anzeige/456"),
           Tag("Suche RAM", "s-anzeige/ram/789")}

ATags == {NoTag, Tag("Kit", "/s-anzeige/kit/321"),
          Tag(" ", "/s-anzeige/ram-kit/abc")}

Raises == {"none", "body", "shipping", "images"}

\* an element with or without the elements of the details
AdElement(data_href, h2, a, details, raises) ==
    [data_href |-> data_href, h2 |-> h2, a |-> a,
     location |-> IF details THEN " Berlin " ELSE None,
     posted_time |-> IF details THEN "Heute" ELSE None,
     price |-> IF details THEN 10 ELSE NoPrice,
     shipping_text |-> IF details THEN "Versand möglich" ELSE "",
     images |-> IF details THEN <<"https://img.de/1.jpg">> ELSE <<>>,
     raises |-> raises]

AdElements ==
    {AdElement(data_href, h2, a, details, raises) :
        data_href \in DataHrefs, h2 \in H2Tags, a \in ATags,
        details \in BOOLEAN, raises \in Raises}

\* the elements of the pages with more than one element: two that parse,
\* one without a link, one that raises in the body of the try block and one
\* that raises in the shipping block
BatchElements ==
    {AdElement("/s-anzeige/ram-kit/123-225-1", NoTag, NoTag, TRUE, "none"),
     AdElement("", Tag("", "/s-anzeige/456"), NoTag, FALSE, "none"),
     AdElement("", Tag("RAM 32GB", None), NoTag, TRUE, "none"),
     AdElement("", NoTag, Tag("Kit", "/s-anzeige/kit/321"), TRUE, "body"),
     AdElement("", Tag("Suche RAM", "s-anzeige/ram/789"), NoTag, TRUE,
               "shipping")}

MaxPage == 3

\* the pages: the lists of ad elements fetch_ads finds in a response
Pages ==
    {<<>>} \cup {<<ad_element>> : ad_element \in AdElements}
        \cup {page \in SeqsUpTo(BatchElements, MaxPage) : Len(page) >= 2}

\* ---- fetch_ads
MaxRetries == 3

\* the loop over ad_elements, left at the first element that gives None
RECURSIVE parse_loop_abort(_, _)
parse_loop_abort(ads, ad_elements) ==
    IF ad_elements = <<>> THEN ads
    ELSE At(parse_ad_element(Head(ad_elements)), LAMBDA ad :
            IF ad = NoAd THEN ads
            ELSE parse_loop_abort(Append(ads, ad), Tail(ad_elements)))

\* the loop over ad_elements: a record is appended, None is counted
RECURSIVE parse_loop(_, _)
parse_loop(ads, ad_elements) ==
    IF ad_elements = <<>> THEN ads
    ELSE At(parse_ad_element(Head(ad_elements)), LAMBDA ad :
            parse_loop(IF ad # NoAd THEN Append(ads, ad) ELSE ads,
                       Tail(ad_elements)))

\* the locals of a call of fetch_ads; `outcomes` and `parsed` are read by the
\* properties only: how each attempt ended, and what _parse_ad_element
\* returned for each element of the page
Fetching(max_retries) ==
    [pc |-> "for", max_retries |-> max_retries, attempt |-> 0, ads |-> <<>>,
     ad_elements |-> <<>>, parsed |-> <<>>, outcomes |-> <<>>]

\* ---- _run_once calls fetch_ads
RunOnce_fetch_ads ==
    /\ module = "scraper"
    /\ scraper.pc = "idle"
    /\ scraper' = Fetching(scraper.max_retries)
    /\ UNCHANGED <<dbvars, botvars, pollvars, loopvars, filtervars>>
    /\ UNCHANGED <<parservars, retrievalvars, notifiervars, handlervars>>

InLoop ==
    /\ module = "scraper"
    /\ scraper.pc = "for"
    /\ scraper.attempt < scraper.max_retries

\* ---- an attempt that gets a page: the elements are parsed, the records
\* returned
FetchAds_page(ad_elements) ==
    /\ InLoop
    /\ \E ads \in {parse_loop(scraper.ads, ad_elements)} :
           scraper' = [scraper EXCEPT
                          !.pc = "returned",
                          !.attempt = @ + 1,
                          !.ads = ads,
                          !.ad_elements = ad_elements,
                          !.parsed = [i \in 1..Len(ad_elements) |->
                                         parse_ad_element(ad_elements[i])],
                          !.outcomes = Append(@, "page")]
    /\ UNCHANGED <<dbvars, botvars, pollvars, loopvars, filtervars>>
    /\ UNCHANGED <<parservars, retrievalvars, notifiervars, handlervars>>

\* ---- an attempt that ends in requests.exceptions.Timeout or another
\* RequestException: the loop goes on with the next attempt, if there is one
FetchAds_request_error(exception) ==
    /\ InLoop
    /\ scraper' = [scraper EXCEPT !.attempt = @ + 1,
                                  !.outcomes = Append(@, exception)]
    /\ UNCHANGED <<dbvars, botvars, pollvars, loopvars, filtervars>>
    /\ UNCHANGED <<parservars, retrievalvars, notifiervars, handlervars>>

\* an attempt that ends in another Exception, the loop going on after it
FetchAds_unexpected_retry ==
    /\ InLoop
    /\ scraper' = [scraper EXCEPT !.attempt = @ + 1,
                                  !.outcomes = Append(@, "Exception")]
    /\ UNCHANGED <<dbvars, botvars, pollvars, loopvars, filtervars>>
    /\ UNCHANGED <<parservars, retrievalvars, notifiervars, handlervars>>

\* ---- an attempt that ends in another Exception, raised before an element
\* is parsed: the loop is left by break
FetchAds_unexpected ==
    /\ InLoop
    /\ scraper' = [scraper EXCEPT !.pc = "returned",
                                  !.attempt = @ + 1,
                                  !.outcomes = Append(@, "Exception")]
    /\ UNCHANGED <<dbvars, botvars, pollvars, loopvars, filtervars>>
    /\ UNCHANGED <<parservars, retrievalvars, notifiervars, handlervars>>

\* ---- the loop ends after max_retries attempts: return ads
FetchAds_exhausted ==
    /\ module = "scraper"
    /\ scraper.pc = "for"
    /\ scraper.attempt >= scraper.max_retries
    /\ scraper' = [scraper EXCEPT !.pc = "returned"]
    /\ UNCHANGED <<dbvars, botvars, pollvars, loopvars, filtervars>>
    /\ UNCHANGED <<parservars, retrievalvars, notifiervars, handlervars>>

\* ---- _run_once after fetch_ads: no ads: return; else _filter_ads(ads)
RunOnce_fetched ==
    /\ module = "scraper"
    /\ scraper.pc = "returned"
    /\ IF scraper.ads = <<>>
       THEN /\ scraper' = [scraper EXCEPT !.pc = "idle"]
            /\ UNCHANGED fetched
       ELSE /\ scraper' = [scraper EXCEPT !.pc = "filter"]
            /\ fetched' = scraper.ads
    /\ UNCHANGED <<dbvars, botvars, pollvars, loopvars, config>>
    /\ UNCHANGED <<parservars, retrievalvars, notifiervars, handlervars>>

InitScraper ==
    /\ module = "scraper"
    /\ now = 0
    /\ seen_ads = <<>>
    /\ InitCalls
    /\ config = NoConfig
    /\ request = [op |-> "none"]
    /\ \E max_retries \in 0..MaxRetries :
           scraper = [Fetching(max_retries) EXCEPT !.pc = "idle"]
    /\ notifier = [pc |-> "off"]

NextScraper ==
    \/ RunOnce_fetch_ads
    \/ \E ad_elements \in Pages : FetchAds_page(ad_elements)
    \/ \E exception \in {"Timeout", "RequestException"} :
           FetchAds_request_error(exception)
    \/ FetchAds_unexpected
    \/ FetchAds_exhausted
    \/ RunOnce_fetched

SpecScraper == InitScraper /\ [][NextScraper]_vars

(***************************************************************************)
(* Properties of the scraper                                               *)
(***************************************************************************)
\* the elements of the page fetch_ads parsed, by position
PageElements == 1..Len(scraper.parsed)

\* the href a detail link is resolved from: data-href, else the first <a>
\* that points to /s-anzeige/, else the <a> of the title element ("" when
\* there is none)
DetailHref(e) ==
    CASE e.data_href # "" -> e.data_href
      [] e.data_href = "" /\ e.h2.found /\ e.h2.href # None
             /\ Contains("/s-anzeige/", e.h2.href) -> e.h2.href
      [] OTHER ->
           IF e.a.found /\ e.a.href # None /\ Contains("/s-anzeige/", e.a.href)
           THEN e.a.href
           ELSE IF e.h2.found
           THEN (IF e.h2.href = None THEN "" ELSE e.h2.href)
           ELSE IF e.a.found /\ e.a.href # None THEN e.a.href
           ELSE ""

\* the absolute link of an href of the page
DetailLink(href) ==
    IF SubSeq(href, 1, 4) = "http" THEN href
    ELSE IF SubSeq(href, 1, 1) = "/" THEN BASE_URL \o href
    ELSE BASE_URL \o "/" \o href

IsDigit(text, i) == i <= Len(text) /\ CharAt(text, i) \in DigitChars

\* /s-anzeige/ is followed by a digit, or by a segment without a slash, a
\* slash and a digit
HasNumericId(link) ==
    \E p \in 1..Len(link) :
        /\ SubSeq(link, p, Min(Len(link), p + 10)) = "/s-anzeige/"
        /\ \/ IsDigit(link, p + 11)
           \/ \E q \in (p + 12)..Len(link) :
                  /\ CharAt(link, q) = "/"
                  /\ \A k \in (p + 11)..(q - 1) : CharAt(link, k) # "/"
                  /\ IsDigit(link, q + 1)

\* every text a title can be read from is blank
NoTitleText(e) ==
    \A tag \in {e.h2, e.a} : tag.found => str_strip(tag.text) = ""

\* what the record says when the element parses
RecordKept(e, record) ==
    /\ record.id # "" /\ Chars(record.id) \subseteq DigitChars
    /\ record.link = DetailLink(DetailHref(e))
    /\ Contains("/" \o record.id, record.link)
    /\ record.title # ""
    /\ NoTitleText(e) => record.title = "Kein Titel"
    /\ record.location # None /\ record.posted_time # None
    /\ e.location = None => record.location = ""
    /\ e.posted_time = None => record.posted_time = ""

\* the exceptions after which _parse_ad_element returns None
RejectionRule(Fatal(_)) ==
    \A i \in PageElements :
        LET e == scraper.ad_elements[i]
            record == scraper.parsed[i]
        IN /\ record = NoAd <=> \/ Fatal(e.raises)
                                \/ DetailHref(e) = ""
                                \/ ~HasNumericId(DetailLink(DetailHref(e)))
           /\ record # NoAd => RecordKept(e, record)

\* C26 as stated: _parse_ad_element returns None exactly when no detail link
\* can be resolved, no numeric ad id can be extracted from the link, or an
\* exception occurs -- any exception; a fragment with an id and an empty
\* title is kept with the placeholder title, location and posted_time being
\* empty strings rather than None.
C26_AsStated == RejectionRule(LAMBDA raises : raises # "none")

\* C26 (amended): _parse_ad_element returns None exactly when no detail link
\* can be resolved, no numeric ad id can be extracted from the link, or an
\* exception is raised outside the shipping and image blocks; an exception in
\* one of these two blocks is handled there and the record is kept.  A
\* fragment with an id and an empty title is kept with the placeholder title
\* "Kein Titel", location and posted_time being "" rather than None.
C26_RejectionRule == RejectionRule(LAMBDA raises : raises = "body")

\* a page with an element kept under the placeholder title, without location
\* and time, and an element rejected for want of a link
C26_Witness ==
    /\ scraper.pc = "returned"
    /\ \E i \in PageElements :
          /\ scraper.parsed[i] # NoAd
          /\ scraper.parsed[i].title = "Kein Titel"
          /\ scraper.parsed[i].location = ""
          /\ scraper.parsed[i].posted_time = ""
    /\ \E i \in PageElements :
          /\ scraper.parsed[i] = NoAd
          /\ scraper.ad_elements[i].raises = "none"

\* the attempt of fetch_ads that returned got a page
PageReturned ==
    /\ scraper.pc = "returned"
    /\ scraper.outcomes # <<>>
    /\ scraper.outcomes[Len(scraper.outcomes)] = "page"

\* the element as it is without the exception
Sound(e) == [e EXCEPT !.raises = "none"]

\* the records of the page in page order, the elements that gave None left
\* out
FailureIsolation(Fatal(_)) ==
    PageReturned =>
        /\ \A i \in PageElements :
              LET e == scraper.ad_elements[i]
              IN /\ Fatal(e.raises) => scraper.parsed[i] = NoAd
                 /\ ~Fatal(e.raises) =>
                        \/ /\ scraper.parsed[i] = NoAd
                           /\ parse_ad_element(Sound(e)) = NoAd
                        \/ /\ scraper.parsed[i] # NoAd
                           /\ scraper.parsed[i].id
                                  = parse_ad_element(Sound(e)).id
        /\ scraper.ads = SelectSeq(scraper.parsed, LAMBDA ad : ad # NoAd)

\* C27 as stated: an exception while extracting one fragment -- any exception
\* -- yields None for that fragment only; fetch_ads returns the records of
\* every other fragment of the page, in page order.
C27_AsStated == FailureIsolation(LAMBDA raises : raises # "none")

\* C27 (amended): an exception raised outside the shipping and image blocks
\* yields None for that fragment only, an exception inside one of these
\* blocks leaves the fragment's record in the batch; fetch_ads returns the
\* records of every fragment that gave one, in page order, and a failing
\* fragment never aborts the batch.
C27_FailureIsolation == FailureIsolation(LAMBDA raises : raises = "body")

\* a page of three elements whose second raises: the first and the third are
\* returned
C27_Witness ==
    /\ PageReturned
    /\ Len(scraper.ad_elements) = 3
    /\ scraper.ad_elements[2].raises = "body"
    /\ scraper.parsed[1] # NoAd /\ scraper.parsed[3] # NoAd
    /\ scraper.ads = <<scraper.parsed[1], scraper.parsed[3]>>

\* the exceptions fetch_ads retries after
Retryable == {"Timeout", "RequestException"}

\* the attempts of the call so far; a further attempt was made only after a
\* retryable exception
AttemptsBounded ==
    /\ Len(scraper.outcomes) = scraper.attempt
    /\ scraper.attempt <= scraper.max_retries
    /\ \A k \in 1..(Len(scraper.outcomes) - 1) :
           scraper.outcomes[k] \in Retryable

\* what fetch_ads returns: the records of the page of the attempt that got
\* one; [] when every attempt failed or an unexpected exception ended the loop
ReturnedAds ==
    scraper.pc = "returned" =>
        IF PageReturned
        THEN scraper.ads = SelectSeq(scraper.parsed, LAMBDA ad : ad # NoAd)
        ELSE /\ scraper.ads = <<>>
             /\ \/ /\ scraper.attempt = scraper.max_retries
                   /\ Range(scraper.outcomes) \subseteq Retryable
                \/ /\ scraper.outcomes # <<>>
                   /\ scraper.outcomes[Len(scraper.outcomes)] = "Exception"

\* the loop is left by return only; _run_once returns on an empty list
\* without filtering, marking or sending
EmptyCycle ==
    /\ scraper.pc = "for" => scraper'.pc \in {"for", "returned"}
    /\ scraper.pc = "returned" /\ scraper.ads = <<>> =>
           /\ scraper'.pc = "idle"
           /\ UNCHANGED <<seen_ads, listings, fetched, filtered_ads, new_ads,
                          queue, sent>>

notifier_max_retries == 3

MaxSendAds == 2
MaxChats == 2

SendOutcomes == {"sent", "RateLimit", "TelegramError", "Exception"}

\* the condition of the while loop
Retrying(retry_count, success) ==
    retry_count <= notifier_max_retries /\ ~success

\* a failed attempt that is not counted
retry_not_counted(retry_count) == retry_count

\* retry_count += 1
retry_counted(retry_count) == retry_count + 1

\* the locals at the call of _send_ad_to_chat for ad and chat_id; `log`
\* keeps the calls in their order and is read by the properties only
Sending(self, ad, chat_id) ==
    [self EXCEPT !.pc = "while", !.ad = ad, !.chat_id = chat_id,
                 !.retry_count = 0, !.success = FALSE, !.attempts = <<>>,
                 !.log = Append(@, <<ad, chat_id>>)]

\* send_telegram of the notifier runs: called on its own, or by _run_once
NotifierRuns ==
    \/ module = "notifier"
    \/ module = "bot" /\ notifier.pc # "off"

\* the notifier with its chat ids, called with `ads` ads
Notifier(ads, chat_ids) ==
    [pc |-> "call", ads |-> ads, chat_ids |-> chat_ids, ad |-> 0,
     chat_id |-> 0, retry_count |-> 0, success |-> FALSE, attempts |-> <<>>,
     ad_sent |-> 0, total_sent |-> 0, log |-> <<>>]

\* ---- send_telegram: 0 without chat ids or ads; else the first call
SendTelegram_call ==
    /\ NotifierRuns
    /\ notifier.pc = "call"
    /\ notifier' = IF notifier.chat_ids = 0 \/ notifier.ads = 0
                   THEN [notifier EXCEPT !.pc = "done"]
                   ELSE Sending(notifier, 1, 1)
    /\ UNCHANGED <<dbvars, botvars, pollvars, loopvars, filtervars>>
    /\ UNCHANGED <<parservars, retrievalvars, scrapervars, handlervars>>

\* ---- _send_ad_to_chat: one pass of the while loop
SendAd_attempt(outcome) ==
    /\ NotifierRuns
    /\ notifier.pc = "while"
    /\ Retrying(notifier.retry_count, notifier.success)
    /\ notifier' =
           CASE outcome = "sent" ->
                    [notifier EXCEPT !.success = TRUE,
                                     !.attempts = Append(@, outcome)]
             [] outcome \in {"RateLimit", "TelegramError"} ->
                    [notifier EXCEPT
                        !.retry_count = retry_counted(@),
                        !.pc = IF retry_counted(notifier.retry_count)
                                      <= notifier_max_retries
                               THEN "while" ELSE "break",
                        !.attempts = Append(@, outcome)]
             [] outcome = "Exception" ->
                    [notifier EXCEPT !.pc = "break",
                                     !.attempts = Append(@, outcome)]
    /\ UNCHANGED <<dbvars, botvars, pollvars, loopvars, filtervars>>
    /\ UNCHANGED <<parservars, retrievalvars, scrapervars, handlervars>>

\* ---- _send_ad_to_chat: the loop is over: return 1 if success else 0
SendAd_return ==
    /\ NotifierRuns
    /\ \/ notifier.pc = "break"
       \/ /\ notifier.pc = "while"
          /\ ~Retrying(notifier.retry_count, notifier.success)
    /\ notifier' = [notifier EXCEPT
                       !.pc = "returned",
                       !.ad_sent = IF notifier.success THEN 1 ELSE 0]
    /\ UNCHANGED <<dbvars, botvars, pollvars, loopvars, filtervars>>
    /\ UNCHANGED <<parservars, retrievalvars, scrapervars, handlervars>>

\* ---- send_telegram: total_sent += ad_sent; the next chat id, the next ad,
\* or return total_sent
SendTelegram_next ==
    /\ NotifierRuns
    /\ notifier.pc = "returned"
    /\ \E counted \in {[notifier EXCEPT !.total_sent = @ + notifier.ad_sent]} :
           notifier' =
               IF notifier.chat_id < notifier.chat_ids
               THEN Sending(counted, notifier.ad, notifier.chat_id + 1)
               ELSE IF notifier.ad < notifier.ads
               THEN Sending(counted, notifier.ad + 1, 1)
               ELSE [counted EXCEPT !.pc = "done"]
    /\ UNCHANGED <<dbvars, botvars, pollvars, loopvars, filtervars>>
    /\ UNCHANGED <<parservars, retrievalvars, scrapervars, handlervars>>

InitNotifier ==
    /\ module = "notifier"
    /\ now = 0
    /\ seen_ads = <<>>
    /\ InitCalls
    /\ config = NoConfig
    /\ request = [op |-> "none"]
    /\ scraper = [pc |-> "off"]
    /\ \E ads \in 0..MaxSendAds, chat_ids \in 0..MaxChats :
           notifier = Notifier(ads, chat_ids)

NextNotifier ==
    \/ SendTelegram_call
    \/ \E outcome \in SendOutcomes : SendAd_attempt(outcome)
    \/ SendAd_return
    \/ SendTelegram_next

\* send_telegram is awaited by _run_once: the event loop resumes it after
\* every await, and send_message and asyncio.sleep come back
SpecNotifier ==
    /\ InitNotifier
    /\ [][NextNotifier]_vars
    /\ WF_vars(NextNotifier)

(***************************************************************************)
(* Properties of the notifier                                              *)
(***************************************************************************)
TelegramErrors == {"RateLimit", "TelegramError"}

\* the attempts of the current call: at most max_retries + 1, and each but
\* the last ended in a TelegramError
AttemptsOfCall ==
    /\ Len(notifier.attempts) <= notifier_max_retries + 1
    /\ \A k \in 1..(Len(notifier.attempts) - 1) :
           notifier.attempts[k] \in TelegramErrors

\* the call returned 1 exactly when an attempt succeeded, else 0
ReturnOfCall ==
    notifier.pc = "returned" =>
        /\ notifier.attempts # <<>>
        /\ notifier.ad_sent = IF "sent" \in Range(notifier.attempts)
                              THEN 1 ELSE 0

\* C29: for any sequence of Telegram errors _send_ad_to_chat makes at most
\* max_retries + 1 send attempts and then returns: 1 if and only if an
\* attempt succeeded, 0 otherwise; it makes no further attempt after an
\* exception that is not a TelegramError; every call returns and
\* send_telegram comes to its end.
C29_SendTerminates ==
    /\ [](module = "notifier" => AttemptsOfCall /\ ReturnOfCall)
    /\ (module = "notifier" /\ notifier.pc \in {"while", "break"})
           ~> (notifier.pc = "returned")
    /\ (module = "notifier") ~> (notifier.pc = "done")

\* the call for the last ad and chat id returned 0 after max_retries + 1
\* attempts that all ended in a TelegramError, and an earlier call returned 1
C29_Witness ==
    /\ notifier.pc = "returned"
    /\ Len(notifier.attempts) = notifier_max_retries + 1
    /\ Range(notifier.attempts) \subseteq TelegramErrors
    /\ notifier.ad_sent = 0
    /\ notifier.total_sent > 0

(***************************************************************************)
(* src/main.py with src/notifier.py : one cycle of the bot whose           *)
(* send_telegram is the notifier's, call by call.  The queue keeps the     *)
(* list send_telegram was called with until it returns.                    *)
(***************************************************************************)
MaxDelivered == 3
DeliveryCycles == 1

\* what the scraper returns in the cycle: offers with the ids 1..3 and a
\* wanted ad, in any order, an ad possibly twice
DeliveryAds ==
    {Ad(id, TitleOk, 10, FALSE) : id \in 1..MaxDelivered}
        \cup {Ad(1, TitleOk, 10, TRUE)}

\* ---- _run_once: await self.notifier.send_telegram(new_ads_sorted); the
\* notifier has the chat ids of the configuration
RunOnce_send_telegram(chat_ids) ==
    /\ module = "bot"
    /\ pc = "notify"
    /\ notifier.pc = "off"
    /\ notifier' = Notifier(Len(queue), chat_ids)
    /\ UNCHANGED <<dbvars, botvars, pollvars, loopvars, filtervars>>
    /\ UNCHANGED <<parservars, retrievalvars, scrapervars, handlervars>>

\* ---- _run_once: send_telegram returned
RunOnce_sent ==
    /\ module = "bot"
    /\ pc = "notify"
    /\ notifier.pc = "done"
    /\ pc' = "cleanup"
    /\ queue' = <<>>
    /\ notifier' = [pc |-> "off"]
    /\ UNCHANGED <<dbvars, pollvars, loopvars, filtervars>>
    /\ UNCHANGED <<filtered_ads, idx, new_ads, last_cleanup, hist>>
    /\ UNCHANGED <<parservars, retrievalvars, scrapervars, handlervars>>

NextDelivery ==
    \/ \E err \in BOOLEAN : Start(err)
    \/ \E ads \in SeqsUpTo(DeliveryAds, MaxDelivered) :
          /\ hist.cycles < DeliveryCycles
          /\ RunOnce_fetch(ads)
          /\ fetched' = ads
          /\ UNCHANGED <<loopvars, config>>
    \/ \E err \in BOOLEAN : GetNewAds_check(err) /\ UNCHANGED <<loopvars, filtervars>>
    \/ \E err \in BOOLEAN : GetNewAds_mark(err) /\ UNCHANGED <<loopvars, filtervars>>
    \/ RunOnce_notify /\ UNCHANGED <<loopvars, filtervars>>
    \/ \E chat_ids \in 0..MaxChats : RunOnce_send_telegram(chat_ids)
    \/ SendTelegram_call
    \* (a rate limit differs from another TelegramError in the wait only)
    \/ \E outcome \in SendOutcomes \ {"RateLimit"} : SendAd_attempt(outcome)
    \/ SendAd_return
    \/ SendTelegram_next
    \/ RunOnce_sent
    \/ \E err \in BOOLEAN : RunOnce_cleanup(err) /\ UNCHANGED <<loopvars, filtervars>>

SpecDelivery == InitBot /\ [][NextDelivery]_vars

(***************************************************************************)
(* Properties of the delivery                                              *)
(***************************************************************************)
\* list a is list b with elements left out, the order kept
IsSubsequence(a, b) ==
    \E at \in [1..Len(a) -> 1..Len(b)] :
        /\ \A i, j \in 1..Len(a) : i < j => at[i] < at[j]
        /\ \A i \in 1..Len(a) : a[i] = b[at[i]]

\* list a read from its end is list b
IsReversed(a, b) ==
    /\ Len(a) = Len(b)
    /\ \A k \in 1..Len(a) : a[k] = b[Len(b) + 1 - k]

\* the k-th call of _send_ad_to_chat when every ad goes to every chat id
\* before the next ad
NthCall(k, chat_ids) ==
    <<((k - 1) \div chat_ids) + 1, ((k - 1) % chat_ids) + 1>>

\* the new ads are in scrape order; the calls made so far are for the ads of
\* the list given, in its order, each ad to each chat id in turn; when
\* send_telegram returns every ad went to every chat id
SentInOrder ==
    /\ pc \in {"mark", "got"} => IsSubsequence(new_ads, fetched)
    /\ pc = "notify" =>
           \E scraped \in SeqsUpTo(Range(fetched), Len(fetched)) :
               /\ IsSubsequence(scraped, fetched)
               /\ IsReversed(queue, scraped)
    /\ notifier.pc \notin {"off", "call"} =>
           /\ notifier.ads = Len(queue)
           /\ \A k \in 1..Len(notifier.log) :
                  notifier.log[k] = NthCall(k, notifier.chat_ids)
           /\ notifier.pc = "done" =>
                  Len(notifier.log) = notifier.ads * notifier.chat_ids

\* the list handed to send_telegram is the batch of new ads read from its
\* end
HandedReversed ==
    pc = "got" /\ pc' # "got" => IsReversed(queue', new_ads)

\* C31: within one cycle the new ads, which are in scrape order, are handed
\* to the notifier in exactly the reverse order, and send_telegram makes its
\* calls in the order of the list given, each ad to every chat id before the
\* next ad: the ad scraped last is delivered first.
C31_NotificationOrder ==
    /\ [](module = "bot" => SentInOrder)
    /\ [][module = "bot" => HandedReversed]_vars

\* the feed 3, 2, 1 was delivered to two chat ids: 1, 1, 2, 2, 3, 3
C31_Witness ==
    /\ notifier.pc = "done"
    /\ [k \in 1..Len(fetched) |-> fetched[k].id] = <<3, 2, 1>>
    /\ [k \in 1..Len(notifier.log) |-> queue[notifier.log[k][1]].id]
           = <<1, 1, 2, 2, 3, 3>>
    /\ notifier.total_sent = 6

(***************************************************************************)
(* src/main.py : the cleanup of _run_once over several days.  The fetch    *)
(* returns nothing, an offer, or a wanted ad that the filter drops.        *)
(***************************************************************************)
PruneTime == 5

PruneFeeds ==
    {<<>>, <<Ad(1, TitleOk, 10, FALSE)>>, <<Ad(2, TitleOk, 10, TRUE)>>}

\* ---- run: the wait between two cycles; a day passes
Wait ==
    /\ module = "bot"
    /\ pc = "idle"
    /\ now < PruneTime
    /\ now' = now + 1
    /\ UNCHANGED <<module, seen_ads, searches, sqlite_sequence, listings,
                   last_call>>
    /\ UNCHANGED <<botvars, pollvars, loopvars, filtervars, restvars>>

NextPrune ==
    \/ Wait
    \/ Start(FALSE)
    \/ \E ads \in PruneFeeds :
          RunOnce_fetch(ads) /\ UNCHANGED <<loopvars, filtervars>>
    \/ GetNewAds_check(FALSE) /\ UNCHANGED <<loopvars, filtervars>>
    \/ \E err \in BOOLEAN : GetNewAds_mark(err) /\ UNCHANGED <<loopvars, filtervars>>
    \/ RunOnce_notify /\ UNCHANGED <<loopvars, filtervars>>
    \/ SendAdToChat(TRUE) /\ UNCHANGED <<loopvars, filtervars>>
    \/ \E err \in BOOLEAN : RunOnce_cleanup(err) /\ UNCHANGED <<loopvars, filtervars>>
    \/ Crash

SpecPrune == InitBot /\ [][NextPrune]_vars

(***************************************************************************)
(* Properties of the prune scheduling                                      *)
(***************************************************************************)
\* more than 24 hours have passed since the cleanup timestamp
CleanupDue == last_cleanup # NoTime /\ now - last_cleanup > OneDay

\* cleanup_old_entries is called in this step
Pruned == hist'.prunes = Append(hist.prunes, now)

\* no cleanup in the first cycle; two cleanups are more than a day apart
PrunesApart ==
    /\ hist.cycles <= 1 => hist.prunes = <<>>
    /\ \A i, j \in 1..Len(hist.prunes) :
           i < j => hist.prunes[j] - hist.prunes[i] > OneDay

\* a cleanup is made only by a cycle that finds the timestamp more than a day
\* old
PrunedWhenDue ==
    /\ hist'.prunes # hist.prunes => Pruned /\ CleanupDue /\ pc = "cleanup"
    /\ last_cleanup = NoTime => hist'.prunes = hist.prunes

\* the step ends a cycle that returns from _run_once without an exception:
\* at `return` after an empty fetch, or at the end
CycleCompletes ==
    \/ pc = "cleanup" /\ pc' = "idle"
    \/ pc = "idle" /\ pc' = "idle" /\ hist'.cycles = hist.cycles + 1

\* C32 as stated: cleanup_old_entries is invoked never in the first cycle,
\* at most once in any 24-hour window, and in the first cycle that completes
\* after more than 24 hours have passed since the previous cleanup timestamp.
C32_AsStated ==
    /\ [](module = "bot" => PrunesApart)
    /\ [][module = "bot" =>
              /\ PrunedWhenDue
              /\ CycleCompletes /\ CleanupDue => Pruned]_vars

\* C32 (amended): cleanup_old_entries is invoked never in the first cycle,
\* at most once in any 24-hour window, and in the first cycle that reaches
\* the end of _run_once after more than 24 hours have passed since the
\* previous cleanup timestamp; a cycle whose fetch returns no ad, or that
\* ends with an exception, makes no cleanup however old the timestamp is.
C32_PruneScheduling ==
    /\ [](module = "bot" => PrunesApart)
    /\ [][module = "bot" =>
              /\ PrunedWhenDue
              /\ pc = "cleanup" /\ pc' = "idle" /\ CleanupDue => Pruned
              /\ pc # "cleanup" => hist'.prunes = hist.prunes]_vars

\* the first cycle set the timestamp on day 0, the second and the third made
\* the cleanup on day 2 and on day 4
C32_Witness ==
    /\ hist.prunes = <<2, 4>>
    /\ hist.cycles = 3
    /\ last_cleanup = 4

(***************************************************************************)
(* Properties of the notifications over the bot's lifetime                 *)
(***************************************************************************)
\* the ids handed to send_telegram in this step, by the calls named
HandedBy(ops) == IF last_call'.op \in ops THEN last_call'.ids ELSE {}

\* with no storage error and no pruning so far, no id handed to the notifier
\* by one of the calls named was handed to it by a cycle before
HandedOnce(ops) ==
    (module = "bot" /\ hist.clean) => HandedBy(ops) \cap hist.was_new = {}

\* the poll cycles alone hand no listing to the notifier twice, whatever
\* restarts lie between them
C33_CyclesHandOnce == [][HandedOnce({"send_telegram"})]_vars

\* C33: absent storage errors and pruning, each listing is handed to the
\* notifier at most once across all poll cycles and across process restarts:
\* neither a cycle nor the start of the bot hands over a listing that was
\* handed over before.
C33_AtMostOnce == [][HandedOnce({"send_telegram", "run"})]_vars

(***************************************************************************)
(* src/src/main.py : DDR5RAMBot._scan_cycle                                *)
(***************************************************************************)
\* send_listings(new_listings, max_count=10)
scan_max_count == 10

MaxScan == 11

ScanCycles == 2

\* the listings _process_ads returns: ids first..first+n-1 in feed order
ScanListing(ad_id) ==
    [ad_id |-> ad_id, url |-> ad_id, title |-> "a", price |-> 10,
     priority_score |-> ad_id % 3]

ScanBatches ==
    {[i \in 1..n |-> ScanListing(first + i - 1)] :
        n \in 0..MaxScan, first \in {1, 2}}

\* run(): the loop `while self.running: await self._scan_cycle()` is entered
Scan_run ==
    /\ module = "scan_cycle"
    /\ pc = "off"
    /\ pc' = "idle"
    /\ UNCHANGED <<dbvars, pollvars, loopvars, filtervars, restvars>>
    /\ UNCHANGED <<filtered_ads, idx, new_ads, queue, last_cleanup, hist>>

\* ads = self.scraper.fetch_ads(); listings = await self._process_ads(ads);
\* `if not ads: return` and `if not listings: return` end the cycle
ScanCycle_fetch(batch) ==
    /\ module = "scan_cycle"
    /\ pc = "idle"
    /\ hist.cycles < ScanCycles
    /\ fetched' = batch
    /\ new_ads' = <<>>
    /\ sent' = <<>>
    /\ idx' = 1
    /\ pc' = IF batch = <<>> THEN "idle" ELSE "new"
    /\ hist' = [hist EXCEPT !.cycles = @ + 1, !.written = {}]
    /\ UNCHANGED <<dbvars, pollvars, loopvars, config>>
    /\ UNCHANGED <<filtered_ads, queue, last_cleanup>>
    /\ UNCHANGED <<request, parsed, consulted, metadata>>
    /\ UNCHANGED <<retrievalvars, latervars>>

\* for listing in listings: if self.database.is_new_listing(listing.ad_id):
\*     new_listings.append(listing); self.database.save_listing(listing)
\* Both store calls catch sqlite3.Error themselves (err_new, err_save); a
\* run has at most one iteration with a storage error.
ScanCycle_check(err_new, err_save) ==
    /\ module = "scan_cycle"
    /\ pc = "new"
    /\ idx <= Len(fetched)
    /\ err_new \/ err_save => hist.clean
    /\ LET listing == fetched[idx] IN
       IF is_new_listing(listings, listing.ad_id, err_new)
       THEN \E r \in {save_listing(listings, listing, now, err_save)} :
               /\ new_ads' = Append(new_ads, listing)
               /\ listings' = r.table
               /\ hist' = [hist EXCEPT
                              !.clean = @ /\ ~err_new /\ ~err_save,
                              !.written =
                                  IF r.ret THEN @ \cup {listing.ad_id} ELSE @]
       ELSE /\ hist' = [hist EXCEPT !.clean = @ /\ ~err_new]
            /\ UNCHANGED <<new_ads, listings>>
    /\ idx' = idx + 1
    /\ UNCHANGED <<module, now, seen_ads, searches, sqlite_sequence, last_call>>
    /\ UNCHANGED <<pc, filtered_ads, queue, last_cleanup>>
    /\ UNCHANGED <<pollvars, loopvars, filtervars, restvars>>

\* if new_listings: await self.telegram_bot.send_listings(new_listings,
\* max_count=10); the cycle ends
ScanCycle_send ==
    /\ module = "scan_cycle"
    /\ pc = "new"
    /\ idx > Len(fetched)
    /\ sent' = IF new_ads # <<>> THEN send_listings(new_ads, scan_max_count)
               ELSE <<>>
    /\ pc' = "idle"
    /\ UNCHANGED <<dbvars, pollvars, loopvars, filtervars>>
    /\ UNCHANGED <<filtered_ads, idx, new_ads, queue, last_cleanup, hist>>
    /\ UNCHANGED <<request, parsed, consulted, metadata>>
    /\ UNCHANGED <<retrievalvars, latervars>>

InitScan ==
    /\ module = "scan_cycle"
    /\ now = 0
    /\ seen_ads = <<>>
    /\ InitOther
    /\ config = NoConfig
    /\ request = [op |-> "none"]

NextScan ==
    \/ Scan_run
    \/ \E batch \in ScanBatches : ScanCycle_fetch(batch)
    \/ \E err_new, err_save \in BOOLEAN : ScanCycle_check(err_new, err_save)
    \/ ScanCycle_send

SpecScan == InitScan /\ [][NextScan]_vars

\* ---- properties of _scan_cycle
\* the ids send_listings handed to send_listing
HandedIds == {sent[i].ad_id : i \in 1..Len(sent)}

\* the cycle has ended after its loop over the listings
CycleEnded == pc = "idle" /\ idx > Len(fetched)

\* C34: no new listing is silently dropped: every listing classified new and
\* saved to the store in a cycle is handed to the notifier in that cycle,
\* however many new listings the cycle has
C34_NoSilentDrop == CycleEnded => hist.written \subseteq HandedIds

\* the same for the cycles with at most max_count new listings
C34_WithinBatchLimit ==
    CycleEnded /\ Len(new_ads) <= scan_max_count =>
        hist.written \subseteq HandedIds

\* a cycle with more than max_count new listings, all saved, has ended
C34_LargeCycle ==
    /\ CycleEnded
    /\ Len(new_ads) > scan_max_count
    /\ Cardinality(hist.written) = Len(new_ads)

(***************************************************************************)
(* src/_old_bot_backup/main.py : the poll loop and the command handlers    *)
(* share one event loop, so a command is handled only while run() awaits.  *)
(***************************************************************************)
\* what fetch_ads can return to a cycle here: nothing, or one of two offers
IntegrityFeeds ==
    { <<>>,
      <<OldAd(1, TitleOk, 10, FALSE, <<"Versand">>)>>,
      <<OldAd(2, TitleOk, 10, FALSE, <<"Versand">>)>> }

CommandOps == {"add_search", "pause_search", "resume_search", "delete_search"}

\* run() is suspended in an await: asyncio.sleep at the end of a pass, or
\* the OCR, Geizhals and send_telegram awaits of an _execute_search that
\* found new ads (fetch_ads, _filter_ads and _get_new_ads do not await)
Awaiting ==
    \/ pc = "sleep"
    \/ /\ pc = "for"
       /\ \/ last_call.op = "_execute_search" /\ last_call.ids # {}
          \/ last_call.op \in CommandOps

\* the commands of a user who adds, pauses, resumes and deletes searches
ManagementCalls ==
    \/ HandlerCalls
    \/ \E search_id \in SearchIds : Call_delete_search(search_id, "u1", FALSE)

NextIntegrity ==
    \/ Run
    \/ Run_while(FALSE)
    \/ Run_for
    \/ Run_should_run
    \/ \E ads \in IntegrityFeeds, fail \in Fails, err2 \in BOOLEAN :
          Execute_search(ads, fail, FALSE, err2)
    \/ Sleep
    \/ Awaiting /\ ManagementCalls
    \/ Tick

SpecIntegrity == InitOld /\ [][NextIntegrity]_vars

\* C35: after any interleaving of the poll loop with the search-management
\* commands handled while the loop awaits, every seen_ads row references a
\* search that exists in the searches table
C35_ReferentialIntegrity ==
    \A i \in 1..Len(seen_ads) : HasSearch(searches, seen_ads[i].search_id)

\* the search being executed was deleted during the pass
C35_DeletedDuringPass ==
    /\ pc = "exec"
    /\ ~HasSearch(searches, active_searches[idx].search_id)

(***************************************************************************)
(* src/main.py : _handle_telegram_commands, the task run() creates beside  *)
(* the poll loop; both are coroutines of one event loop.                   *)
(***************************************************************************)
\* a poll loop that could be suspended anywhere while it runs
Suspended_anywhere(p) == p # "off"

\* the poll loop is suspended in an await: asyncio.sleep between two cycles
\* ("idle"), or send_telegram ("notify"); fetch_ads, _filter_ads,
\* _get_new_ads and the cleanup are plain calls
Suspended(p) == p \in {"idle", "notify"}

CommandTexts == {"test", "status"}

\* one update is handled: "test" reads get_last_ads(limit=2) and sends what
\* it returns, "status" answers with the status message
HandleCommands(text, err) ==
    /\ module = "bot"
    /\ Suspended(pc)
    /\ returned' = IF text = "test" THEN AdDicts(get_last_ads(seen_ads, 2, err))
                   ELSE returned
    /\ last_call' = Call(text, <<err>>, TRUE, FALSE)
    /\ UNCHANGED <<module, now, seen_ads, searches, sqlite_sequence, listings>>
    /\ UNCHANGED <<botvars, pollvars, loopvars, filtervars, parservars>>
    /\ UNCHANGED latervars
    /\ UNCHANGED deleted_count

NextCommands ==
    \/ Start(FALSE)
    \/ \E ads \in SeqsUpTo(RawAds, MaxFeedLen) :
          RunOnce_fetch(ads) /\ UNCHANGED <<loopvars, filtervars>>
    \/ \E err \in BOOLEAN : GetNewAds_check(err) /\ UNCHANGED <<loopvars, filtervars>>
    \/ \E err \in BOOLEAN : GetNewAds_mark(err) /\ UNCHANGED <<loopvars, filtervars>>
    \/ RunOnce_notify /\ UNCHANGED <<loopvars, filtervars>>
    \/ \E ok \in BOOLEAN : SendAdToChat(ok) /\ UNCHANGED <<loopvars, filtervars>>
    \/ \E err \in BOOLEAN : RunOnce_cleanup(err) /\ UNCHANGED <<loopvars, filtervars>>
    \/ \E text \in CommandTexts, err \in BOOLEAN : HandleCommands(text, err)

SpecCommands == InitBot /\ [][NextCommands]_vars

\* ---- properties
\* the ids of the batch of the cycle: being collected, or being sent
BatchIds == Ids(new_ads) \cup Ids(queue)

\* the step is one of the command handler
HandlerStep == last_call'.op \in CommandTexts

\* C36: check-and-mark is atomic with respect to the command handler: the
\* handler never runs inside the loop of _get_new_ads, so whenever it runs
\* mark_as_seen has been called for every ad of the new batch, and it
\* neither classifies an ad nor writes the seen set
C36_CheckAndMarkAtomic ==
    [][HandlerStep =>
          /\ pc \notin {"dedup", "mark"}
          /\ BatchIds \subseteq hist.written
          /\ UNCHANGED <<seen_ads, new_ads, filtered_ads, idx, queue>>]_vars

\* the handler has answered a test command while the batch was being sent
C36_Witness ==
    /\ last_call.op = "test"
    /\ pc = "notify"
    /\ queue # <<>>
    /\ returned # <<>>

(***************************************************************************)
(* src/telegram_handler.py : TelegramHandler, the command surface of the   *)
(* multi-search bot.  An update is a text message, a command or a callback *)
(* query of one chat; the Application hands it to the first handler of     *)
(* get_handlers() that accepts it.                                         *)
(***************************************************************************)
INPUT_KEYWORD == "INPUT_KEYWORD"
INPUT_PRICE_MIN == "INPUT_PRICE_MIN"
INPUT_PRICE_MAX == "INPUT_PRICE_MAX"
INPUT_INTERVAL == "INPUT_INTERVAL"
INPUT_SHIPPING == "INPUT_SHIPPING"

\* the chats the bot is configured for
allowed_chat_ids == {"u1"}

\* is_authorized(chat_id)
is_authorized(chat_id) == chat_id \in allowed_chat_ids

\* ---- dictionaries
\* d[k] = v
DictSet(d, k, v) == [x \in DOMAIN d \cup {k} |-> IF x = k THEN v ELSE d[x]]

\* d.get(k, default)
DictGet(d, k, default) == IF k \in DOMAIN d THEN d[k] ELSE default

\* ---- int(text) and float(text) of a decimal literal
AllDigits(s) == s # "" /\ \A i \in 1..Len(s) : CharAt(s, i) \in DigitChars

RECURSIVE int_digits(_)
int_digits(s) ==
    IF s = "" THEN 0
    ELSE 10 * int_digits(SubSeq(s, 1, Len(s) - 1))
         + (IndexIn(CharAt(s, Len(s)), Digits) - 1)

\* int(text): surrounding blanks and one sign are accepted; anything else
\* raises ValueError.  float(text) agrees with it on the texts drawn here
\* (no decimal point, exponent, "inf" or "nan" among them).
python_int(text) ==
    LET t == str_strip(text)
        signed == t # "" /\ CharAt(t, 1) \in {"-", "+"}
        body == IF signed THEN SubSeq(t, 2, Len(t)) ELSE t
    IN IF ~AllDigits(body) THEN [raises |-> TRUE, value |-> 0]
       ELSE [raises |-> FALSE,
             value |-> IF signed /\ CharAt(t, 1) = "-" THEN 0 - int_digits(body)
                       ELSE int_digits(body)]

python_float(text) == python_int(text)

\* s.startswith(prefix); re.search("^prefix", s)
StartsWith(s, prefix) ==
    Len(s) >= Len(prefix) /\ SubSeq(s, 1, Len(prefix)) = prefix

\* int(query.data.split("_")[-1]) of a callback that ends in digits
LastInt(data) == int_digits(TrailingDigits(data))

\* ---- which handler of get_handlers() accepts an update
IsCommand(u, name) == u.kind = "command" /\ u.text = name

IsCallback(u, prefix) == u.kind = "callback" /\ StartsWith(u.data, prefix)

\* entry_points of add_search_conv; allow_reentry=True: in every state
ConvEntry(u) == u.kind = "callback" /\ u.data = "menu_add"

\* states[s] of add_search_conv accepts u in state s
ConvIn(u, s) ==
    /\ ~ConvEntry(u)
    /\ handler.state[u.chat_id] = s
    /\ IF s = INPUT_SHIPPING THEN IsCallback(u, "shipping_")
       ELSE u.kind = "message"

\* fallbacks of add_search_conv
ConvFallback(u) ==
    /\ handler.state[u.chat_id] # END
    /\ IsCommand(u, "cancel")

\* the handler record after callback `by` has handled u
Handled(u, by, db, state, user_data) ==
    [handler EXCEPT !.state[u.chat_id] = state,
                    !.user_data[u.chat_id] = user_data,
                    !.chat = u.chat_id, !.by = by, !.db = db, !.raised = FALSE]

\* a handler that leaves the conversation of the chat alone
Answered(u, by, db) ==
    Handled(u, by, db, handler.state[u.chat_id], handler.user_data[u.chat_id])

\* a handler that caught an exception and leaves the conversation alone
Raised(u, by, db) == [Answered(u, by, db) EXCEPT !.raised = TRUE]

HandlerFrame ==
    /\ UNCHANGED <<module, now, listings, last_call>>
    /\ UNCHANGED <<botvars, pollvars, loopvars, filtervars>>
    /\ UNCHANGED <<parservars, retrievalvars, scrapervars, notifiervars>>

StoreUnchanged == UNCHANGED <<searches, sqlite_sequence, seen_ads>>

\* the callback data the chats send
CallbackData ==
    {"menu_add", "menu_back", "menu_list", "menu_stats", "menu_help",
     "search_manage_1", "search_pause_1", "search_resume_1", "search_delete_1",
     "search_delete_confirm_1", "shipping_both", "shipping_pickup",
     "shipping_shipping", "shipping_"}

\* the CallbackQueryHandlers registered after add_search_conv: the first
\* whose pattern matches the data
CallbackRoute(data) ==
    IF data = "menu_back" THEN "start_command"
    ELSE IF data = "menu_list" THEN "list_searches"
    ELSE IF StartsWith(data, "search_manage_") THEN "manage_search"
    ELSE IF StartsWith(data, "search_pause_") THEN "pause_search"
    ELSE IF StartsWith(data, "search_resume_") THEN "resume_search"
    ELSE IF /\ StartsWith(data, "search_delete_")
            /\ AllDigits(SubSeq(data, 15, Len(data)))
         THEN "delete_search_confirm"
    ELSE IF StartsWith(data, "search_delete_confirm_")
         THEN "delete_search_execute"
    ELSE IF data = "menu_stats" THEN "show_stats"
    ELSE IF data = "menu_help" THEN "show_help"
    ELSE "none"

CallbackRoutes == [data \in CallbackData |-> CallbackRoute(data)]

\* get_handlers(): the callback of the first handler that accepts u, in the
\* order of the list; add_search_conv tries its entry point, then the
\* handlers of the chat's state, then its fallback
Route(u) ==
    IF IsCommand(u, "start") THEN "start_command"
    ELSE IF ConvEntry(u) THEN "add_search_start"
    ELSE IF ConvIn(u, INPUT_KEYWORD) THEN "add_search_keyword"
    ELSE IF ConvIn(u, INPUT_PRICE_MIN) THEN "add_search_price_min"
    ELSE IF ConvIn(u, INPUT_PRICE_MAX) THEN "add_search_price_max"
    ELSE IF ConvIn(u, INPUT_INTERVAL) THEN "add_search_interval"
    ELSE IF ConvIn(u, INPUT_SHIPPING) THEN "add_search_shipping"
    ELSE IF ConvFallback(u) THEN "cancel_conversation"
    ELSE IF u.kind # "callback" THEN "none"
    ELSE CallbackRoutes[u.data]

\* ---- start_command: the only callback that asks is_authorized
Handle_start_command(u) ==
    /\ module = "telegram_handler"
    /\ Route(u) = "start_command"
    /\ handler' = Answered(u, IF is_authorized(u.chat_id) THEN "start_command"
                              ELSE "unauthorized_handler", {})
    /\ StoreUnchanged
    /\ HandlerFrame

\* ---- list_searches, manage_search: get_user_searches(chat_id)
Handle_list_searches(u) ==
    /\ module = "telegram_handler"
    /\ Route(u) \in {"list_searches", "manage_search"}
    /\ handler' = Answered(u, Route(u), {"get_user_searches"})
    /\ StoreUnchanged
    /\ HandlerFrame

\* ---- pause_search, resume_search: self.db.pause_search(search_id, chat_id)
\* or resume_search; on success manage_search shows the search
Handle_pause_resume(u, err) ==
    /\ module = "telegram_handler"
    /\ Route(u) \in {"pause_search", "resume_search"}
    /\ \E r \in {IF Route(u) = "pause_search"
                 THEN pause_search(searches, LastInt(u.data), u.chat_id, err)
                 ELSE resume_search(searches, LastInt(u.data), u.chat_id, err)} :
          /\ searches' = r.searches
          /\ handler' = Answered(u, Route(u),
                                 {Route(u)} \cup IF r.ret
                                                 THEN {"get_user_searches"}
                                                 ELSE {})
    /\ UNCHANGED <<sqlite_sequence, seen_ads>>
    /\ HandlerFrame

\* ---- delete_search_confirm asks back; show_help
Handle_no_store(u) ==
    /\ module = "telegram_handler"
    /\ Route(u) \in {"delete_search_confirm", "show_help"}
    /\ handler' = Answered(u, Route(u), {})
    /\ StoreUnchanged
    /\ HandlerFrame

\* ---- delete_search_execute: self.db.delete_search(search_id, chat_id); on
\* success list_searches shows the rest
Handle_delete_search_execute(u, err) ==
    /\ module = "telegram_handler"
    /\ Route(u) = "delete_search_execute"
    /\ \E r \in {delete_search(searches, seen_ads, LastInt(u.data), u.chat_id,
                               err)} :
          /\ searches' = r.searches
          /\ seen_ads' = r.seen_ads
          /\ handler' = Answered(u, Route(u),
                                 {"delete_search"} \cup IF r.ret
                                                        THEN {"get_user_searches"}
                                                        ELSE {})
    /\ UNCHANGED sqlite_sequence
    /\ HandlerFrame

\* ---- show_stats: get_user_searches(chat_id) and get_stats(days=1)
Handle_show_stats(u) ==
    /\ module = "telegram_handler"
    /\ Route(u) = "show_stats"
    /\ handler' = Answered(u, Route(u), {"get_user_searches", "get_stats"})
    /\ StoreUnchanged
    /\ HandlerFrame

\* ---- no handler accepts the update
Unhandled(u) ==
    /\ module = "telegram_handler"
    /\ Route(u) = "none"
    /\ handler' = Answered(u, "none", {})
    /\ StoreUnchanged
    /\ HandlerFrame

\* ---- the add-search conversation
\* the searches one run of the handler may create
MaxCreated == 1

\* an add_search_interval that accepts every integer
interval_accepted_any(interval_min) == TRUE

\* add_search_interval: if interval_min < 1: raise ValueError
interval_accepted(interval_min) == ~(interval_min < 1)

\* add_search_start: return INPUT_KEYWORD
Handle_add_search_start(u) ==
    /\ module = "telegram_handler"
    /\ Route(u) = "add_search_start"
    /\ handler' = Handled(u, Route(u), {}, INPUT_KEYWORD,
                          handler.user_data[u.chat_id])
    /\ StoreUnchanged
    /\ HandlerFrame

\* add_search_keyword: user_data["new_search_keyword"] = text.strip()
Handle_add_search_keyword(u) ==
    /\ module = "telegram_handler"
    /\ Route(u) = "add_search_keyword"
    /\ handler' = Handled(u, Route(u), {}, INPUT_PRICE_MIN,
                          DictSet(handler.user_data[u.chat_id],
                                  "new_search_keyword", str_strip(u.text)))
    /\ StoreUnchanged
    /\ HandlerFrame

\* add_search_price_min, add_search_price_max: "skip" stores None, a number
\* is stored, a ValueError of float() asks again in the same state
Handle_add_search_price(u) ==
    /\ module = "telegram_handler"
    /\ Route(u) \in {"add_search_price_min", "add_search_price_max"}
    /\ LET text == str_lower(str_strip(u.text))
           key == IF Route(u) = "add_search_price_min"
                  THEN "new_search_price_min" ELSE "new_search_price_max"
           next == IF Route(u) = "add_search_price_min"
                   THEN INPUT_PRICE_MAX ELSE INPUT_INTERVAL
           r == python_float(text)
           user_data == handler.user_data[u.chat_id]
       IN handler' =
              IF text = "skip"
              THEN Handled(u, Route(u), {}, next, DictSet(user_data, key, NoPrice))
              ELSE IF r.raises
              THEN Raised(u, Route(u), {})
              ELSE Handled(u, Route(u), {}, next, DictSet(user_data, key, r.value))
    /\ StoreUnchanged
    /\ HandlerFrame

\* add_search_interval: int(text) minutes, at least 1, stored in seconds; a
\* ValueError asks again in the same state
Handle_add_search_interval(u) ==
    /\ module = "telegram_handler"
    /\ Route(u) = "add_search_interval"
    /\ LET r == python_int(str_strip(u.text)) IN
       handler' =
           IF r.raises \/ ~interval_accepted(r.value)
           THEN Raised(u, Route(u), {})
           ELSE Handled(u, Route(u), {}, INPUT_SHIPPING,
                        DictSet(handler.user_data[u.chat_id],
                                "new_search_interval", r.value * 60))
    /\ StoreUnchanged
    /\ HandlerFrame

\* shipping_map.get(query.data, "both")
shipping_pref_of(data) ==
    IF data = "shipping_shipping" THEN "shipping"
    ELSE IF data = "shipping_pickup" THEN "pickup"
    ELSE "both"

\* add_search_shipping: self.db.add_search(user_id=chat_id, ...) with the
\* values of user_data, which is cleared afterwards; an exception (err: the
\* sqlite3.Error add_search raises again; a missing keyword) is logged.
\* Returns ConversationHandler.END either way.
Handle_add_search_shipping(u, err) ==
    /\ module = "telegram_handler"
    /\ Route(u) = "add_search_shipping"
    /\ sqlite_sequence < MaxCreated
    /\ LET user_data == handler.user_data[u.chat_id]
           r == add_search(searches, sqlite_sequence, u.chat_id,
                           DictGet(user_data, "new_search_keyword", ""), <<>>,
                           now, err)
           n == Len(r.searches)
       IN IF r.raised \/ "new_search_keyword" \notin DOMAIN user_data
          THEN /\ handler' = [Handled(u, Route(u), {"add_search"}, END,
                                       user_data) EXCEPT !.raised = TRUE]
               /\ UNCHANGED <<searches, sqlite_sequence>>
          ELSE /\ searches' =
                      [r.searches EXCEPT ![n] = [@ EXCEPT
                          !.price_min =
                              DictGet(user_data, "new_search_price_min", NoPrice),
                          !.price_max =
                              DictGet(user_data, "new_search_price_max", NoPrice),
                          !.interval_seconds =
                              DictGet(user_data, "new_search_interval", 300),
                          !.shipping_preference = shipping_pref_of(u.data)]]
               /\ sqlite_sequence' = r.seq
               /\ handler' = Handled(u, Route(u), {"add_search"}, END, EmptyDict)
    /\ UNCHANGED seen_ads
    /\ HandlerFrame

\* cancel_conversation: user_data.clear(); return ConversationHandler.END
Handle_cancel_conversation(u) ==
    /\ module = "telegram_handler"
    /\ Route(u) = "cancel_conversation"
    /\ handler' = Handled(u, Route(u), {}, END, EmptyDict)
    /\ StoreUnchanged
    /\ HandlerFrame

\* ---- the updates of a chat that goes through conversations
ConversationTexts == {"ddr5", " Skip", "5 ", "0"}

ConversationUpdates ==
    [chat_id : {"u1"}, kind : {"message"}, text : ConversationTexts]
    \cup [chat_id : {"u1"}, kind : {"command"}, text : {"start", "cancel"}]
    \cup [chat_id : {"u1"}, kind : {"callback"},
          data : {"menu_add", "menu_list", "shipping_pickup", "shipping_"}]

InitHandler ==
    /\ module = "telegram_handler"
    /\ InitStore
    /\ config = NoConfig
    /\ request = [op |-> "none"]

NextConversation ==
    \E u \in ConversationUpdates :
        \/ Handle_start_command(u)
        \/ Handle_list_searches(u)
        \/ Handle_add_search_start(u)
        \/ Handle_add_search_keyword(u)
        \/ Handle_add_search_price(u)
        \/ Handle_add_search_interval(u)
        \/ \E err \in BOOLEAN : Handle_add_search_shipping(u, err)
        \/ Handle_cancel_conversation(u)
        \/ Unhandled(u)

SpecConversation == InitHandler /\ [][NextConversation]_vars

\* ---- properties of the conversation
\* the steps of the conversation, in their order
ConvOrder ==
    {<<INPUT_KEYWORD, INPUT_PRICE_MIN>>, <<INPUT_PRICE_MIN, INPUT_PRICE_MAX>>,
     <<INPUT_PRICE_MAX, INPUT_INTERVAL>>, <<INPUT_INTERVAL, INPUT_SHIPPING>>,
     <<INPUT_SHIPPING, END>>}

\* the callback that takes the conversation from one state to the next
ConvStep ==
    [INPUT_KEYWORD |-> "add_search_keyword",
     INPUT_PRICE_MIN |-> "add_search_price_min",
     INPUT_PRICE_MAX |-> "add_search_price_max",
     INPUT_INTERVAL |-> "add_search_interval",
     INPUT_SHIPPING |-> "add_search_shipping"]

\* the key of user_data an input step stores
ConvKey ==
    [add_search_price_min |-> "new_search_price_min",
     add_search_price_max |-> "new_search_price_max",
     add_search_interval |-> "new_search_interval"]

\* a state changes only by the step of its place in the order, by the entry
\* point (menu_add starts over at the keyword) or by /cancel
InOrder ==
    \A c \in Users :
        handler'.state[c] # handler.state[c] =>
            /\ handler'.chat = c
            /\ \/ /\ <<handler.state[c], handler'.state[c]>> \in ConvOrder
                  /\ handler'.by = ConvStep[handler.state[c]]
               \/ /\ handler'.by = "add_search_start"
                  /\ handler'.state[c] = INPUT_KEYWORD
               \/ /\ handler'.by = "cancel_conversation"
                  /\ handler'.state[c] = END

\* a number step that got a ValueError changes nothing; one that did not has
\* stored its field and moved on
NumberSteps ==
    handler'.by \in DOMAIN ConvKey /\ handler' # handler =>
        LET c == handler'.chat IN
        IF handler'.raised
        THEN /\ handler'.state = handler.state
             /\ handler'.user_data = handler.user_data
        ELSE /\ <<handler.state[c], handler'.state[c]>> \in ConvOrder
             /\ ConvKey[handler'.by] \in DOMAIN handler'.user_data[c]

\* the searches table changes only in add_search_shipping, which appends one
\* row for the chat unless add_search failed, and ends the conversation
InsertedAtShipping ==
    /\ searches' # searches =>
          /\ handler'.by = "add_search_shipping"
          /\ handler.state[handler'.chat] = INPUT_SHIPPING
    /\ handler'.by = "add_search_shipping" /\ handler' # handler =>
          /\ handler'.state[handler'.chat] = END
          /\ IF handler'.raised THEN searches' = searches
             ELSE /\ Len(searches') = Len(searches) + 1
                  /\ SubSeq(searches', 1, Len(searches)) = searches
                  /\ searches'[Len(searches')].user_id = handler'.chat

\* every search in the table can be polled
ValidSearches ==
    \A i \in 1..Len(searches) :
        /\ searches[i].interval_seconds >= 60
        /\ searches[i].shipping_preference \in {"both", "pickup", "shipping"}

AuthorizationUpdates ==
    [chat_id : Users, kind : {"message"}, text : {"5"}]
    \cup [chat_id : Users, kind : {"command"}, text : {"start", "cancel"}]
    \cup [chat_id : Users, kind : {"callback"},
          data : {"menu_add", "menu_list", "menu_stats", "search_pause_1",
                  "search_resume_1", "search_delete_1",
                  "search_delete_confirm_1", "shipping_pickup"}]

NextAuthorization ==
    \E u \in AuthorizationUpdates :
        \/ Handle_start_command(u)
        \/ Handle_list_searches(u)
        \/ \E err \in BOOLEAN : Handle_pause_resume(u, err)
        \/ Handle_no_store(u)
        \/ \E err \in BOOLEAN : Handle_delete_search_execute(u, err)
        \/ Handle_show_stats(u)
        \/ Handle_add_search_start(u)
        \/ Handle_add_search_keyword(u)
        \/ Handle_add_search_price(u)
        \/ Handle_add_search_interval(u)
        \/ \E err \in BOOLEAN : Handle_add_search_shipping(u, err)
        \/ Handle_cancel_conversation(u)
        \/ Unhandled(u)

SpecAuthorization == InitHandler /\ [][NextAuthorization]_vars

\* the step handles an update of a chat that is not in allowed_chat_ids
UnauthorizedStep ==
    /\ handler' # handler \/ searches' # searches \/ seen_ads' # seen_ads
    /\ ~is_authorized(handler'.chat)

\* C38: no handler reads or mutates the store on behalf of a chat id that is
\* not in allowed_chat_ids: an update of such a chat makes no Database call
\* and leaves the searches and seen_ads tables unchanged
C38_Authorization ==
    [][UnauthorizedStep =>
          /\ handler'.db = {}
          /\ UNCHANGED <<searches, seen_ads>>]_vars

\* the same for /start and menu_back, the updates start_command handles
C38_StartAuthorized ==
    [][UnauthorizedStep /\ handler'.by \in {"start_command", "unauthorized_handler"} =>
          /\ handler'.by = "unauthorized_handler"
          /\ handler'.db = {}
          /\ UNCHANGED <<searches, seen_ads>>]_vars

\* a chat that is not allowed owns a search
C38_Intruder ==
    \E i \in 1..Len(searches) : ~is_authorized(searches[i].user_id)

====
